---- MODULE Spec2Model ----
(***************************************************************************)
(* Model of the rocket sizing engine of two-stage-steam-rocket:            *)
(*   - RocketOptimizer / Stage / MultiStageRocket                          *)
(*       (rocket_design/rocket_optimizer.py, rocket_design/rocket_physics.py) *)
(*   - RocketPerformanceAnalyzer.calculate_maximum_payload                 *)
(*       (rocket_design/src/performance_analysis.py)                       *)
(*                                                                         *)
(* The Python code computes with binary floating point.  The model uses    *)
(* scaled integers, every product being divided back with rounding to      *)
(* nearest (MulDivR), and floating-point values of these units for the     *)
(* quantities that grow with the rocket (mass, thrust, flow rate):         *)
(*   mass            kg                                                    *)
(*   length          mm                                                    *)
(*   wall thickness  micrometre                                            *)
(*   area            cm^2 (tank surface), mm^2 (cross section)             *)
(*   force, thrust   N                                                     *)
(*   pressure        Pa (tank), kPa (acceleration stress)                  *)
(*   velocity        cm/s                                                  *)
(*   altitude        m                                                     *)
(*   time            ms                                                    *)
(*   flow rate       g/s                                                   *)
(*   ratios          1e-6 (names ending in E6), 1e-3 (names ending in E3)  *)
(***************************************************************************)
EXTENDS Integers, Sequences, FiniteSets, TLC

\* ------------------------------------------------------------------------
\* Scaled-integer arithmetic standing for the float operations of the code.
\* ------------------------------------------------------------------------

MaxInt == 2^30 + (2^30 - 1)

Abs(x) == IF x < 0 THEN -x ELSE x

Max(a, b) == IF a >= b THEN a ELSE b

Min(a, b) == IF a <= b THEN a ELSE b

\* <<q, r>> with a*b = q*c + r and 0 <= r < c, for a, b >= 0 and
\* 0 < c <= MaxInt \div 31, computed without forming the product a*b
\* (b is consumed four bits at a time).
RECURSIVE MulDivQR(_, _, _)
MulDivQR(a, b, c) ==
    IF b = 0 THEN <<0, 0>>
    ELSE LET h  == MulDivQR(a, b \div 16, c)
             rr == 16 * h[2] + (b % 16) * (a % c)
         IN  <<16 * h[1] + (b % 16) * (a \div c) + rr \div c, rr % c>>

\* <<a*b \div c, a*b % c>> for a, b >= 0, c > 0.
MulDivPair(a, b, c) ==
    IF b = 0 \/ a <= MaxInt \div b
    THEN <<(a * b) \div c, (a * b) % c>>
    ELSE MulDivQR(Max(a, b), Min(a, b), c)

\* The quotient of qr = <<q, r>> by c rounded to nearest, with its sign.
RoundedQuotient(qr, c, negative) ==
    IF negative
    THEN -(IF c <= 2 * qr[2] THEN qr[1] + 1 ELSE qr[1])
    ELSE IF c <= 2 * qr[2] THEN qr[1] + 1 ELSE qr[1]

\* a*b/c rounded to nearest, any signs of a and b, c > 0.
MulDivR(a, b, c) ==
    RoundedQuotient(MulDivPair(Abs(a), Abs(b), c), c, (a < 0) # (b < 0))

PiE6 == 3141593

Ln2E6 == 693147

\* Largest d = den * 2^k with d <= num; returns <<d, k>>.
RECURSIVE Ln2Reduce(_, _, _)
Ln2Reduce(num, d, k) ==
    IF d <= num \div 2 THEN Ln2Reduce(num, 2 * d, k + 1) ELSE <<d, k>>

\* 1 + z2/3 + z2^2/5 + ... + z2^6/13 in 1e-6, for z2 in 1e-6.
AtanhSeries(z2) ==
    1000000 + MulDivR(z2,
      333333 + MulDivR(z2,
        200000 + MulDivR(z2,
          142857 + MulDivR(z2,
            111111 + MulDivR(z2,
              90909 + MulDivR(z2, 76923, 1000000),
            1000000),
          1000000),
        1000000),
      1000000),
    1000000)

\* 2 * atanh(z) in 1e-6, for z in 1e-6.
TwiceAtanh(z) == 2 * MulDivR(z, AtanhSeries(MulDivR(z, z, 1000000)), 1000000)

\* ln(num / d) + k * ln 2 for red = <<d, k>>, d <= num < 2 * d.
LnReduced(num, red) ==
    red[2] * Ln2E6 + TwiceAtanh(MulDivR(num - red[1], 1000000, num + red[1]))

\* math.log(num / den) for num >= den > 0, in 1e-6:
\* ln(x) = k*ln 2 + 2*atanh((m-1)/(m+1)), m = x/2^k.
LnE6(num, den) == LnReduced(num, Ln2Reduce(num, den, 0))

\* One Newton step for the cube root of a*a*b*rE3/1000.
CbrtStep(x, a, b, rE3) ==
    (2 * x + MulDivR(MulDivR(a * 1000, a, x), MulDivR(b, rE3, x), 1000000))
      \div 3

RECURSIVE CbrtIter(_, _, _, _, _)
CbrtNext(x, y, a, b, rE3, fuel) ==
    IF fuel = 0 \/ Abs(y - x) <= 1 THEN y
    ELSE CbrtIter(y, a, b, rE3, fuel - 1)

CbrtIter(x, a, b, rE3, fuel) ==
    CbrtNext(x, CbrtStep(x, a, b, rE3), a, b, rE3, fuel)

\* math.pow(a*a*b*r, 1/3) for a, b > 0 (mm) and r = rE3/1000.
Cbrt(a, b, rE3) == CbrtIter(Max(a, b), a, b, rE3, 30)

\* ------------------------------------------------------------------------
\* Masses, thrusts and flow rates grow without bound while the optimizer
\* diverges, so they are carried as binary floating-point values <<m, e>>
\* standing for m * 2^e, e >= 0, with a significand of MantissaBits bits.
\* A value below 2^MantissaBits is an exact integer of its unit (e = 0).
\* ------------------------------------------------------------------------

MantissaBits == 24

\* Number of binary digits of n >= 0.
RECURSIVE BitLen(_)
BitLen(n) ==
    IF n >= 16 THEN 4 + BitLen(n \div 16)
    ELSE IF n >= 8 THEN 4 ELSE IF n >= 4 THEN 3
    ELSE IF n >= 2 THEN 2 ELSE IF n >= 1 THEN 1 ELSE 0

\* m / 2^k rounded to nearest, k >= 0.
RoundShift(m, k) ==
    IF k <= 0 THEN m
    ELSE IF k > 30 THEN 0
    ELSE IF m < 0
    THEN -((-m) \div 2^k + (IF (-m) % 2^k >= 2^(k - 1) THEN 1 ELSE 0))
    ELSE m \div 2^k + (IF m % 2^k >= 2^(k - 1) THEN 1 ELSE 0)

\* The normal form of r * 2^e for a significand r already rounded to at most
\* MantissaBits bits (2^MantissaBits itself when the rounding carried).
FCarry(r, e) ==
    IF Abs(r) = 2^MantissaBits THEN <<r \div 2, e + 1>> ELSE <<r, e>>

\* The normal form of m * 2^e, k being the excess of m over MantissaBits bits.
FNormAt(m, e, k) ==
    IF m = 0 THEN <<0, 0>>
    ELSE IF k > 0 THEN FCarry(RoundShift(m, k), e + k)
    ELSE IF k < 0 /\ e > 0 THEN <<m * 2^Min(-k, e), e - Min(-k, e)>>
    ELSE <<m, e>>

\* The normal form of m * 2^e.
FNorm(m, e) == FNormAt(m, e, BitLen(Abs(m)) - MantissaBits)

\* float(n) for an integer n.
FromInt(n) == FNorm(n, 0)

FZero == <<0, 0>>

FNeg(x) == <<-x[1], x[2]>>

\* x + y: the significands are aligned on the smaller exponent when that is
\* exact, on the larger one otherwise.
FAdd(x, y) ==
    IF Abs(x[2] - y[2]) <= 6
    THEN FNorm(x[1] * 2^(x[2] - Min(x[2], y[2]))
                 + y[1] * 2^(y[2] - Min(x[2], y[2])),
               Min(x[2], y[2]))
    ELSE FNorm(RoundShift(x[1], y[2] - x[2]) + RoundShift(y[1], x[2] - y[2]),
               Max(x[2], y[2]))

FSub(x, y) == FAdd(x, FNeg(y))

\* x < y, x > 0, x = 0.
FLess(x, y) == FSub(x, y)[1] < 0

FPositive(x) == x[1] > 0

FIsZero(x) == x[1] = 0

\* max(x, y) as Python evaluates it: y only when it is strictly greater.
FMax(x, y) == IF FLess(x, y) THEN y ELSE x

\* x * a / c, computed as (m * a * 2^up / (c * 2^dn)) * 2^(e + dn - up): the
\* shifts keep the integer quotient within range and the significand full.
FMulDivBy(x, a, c, dn, up) ==
    FNorm(MulDivR(x[1], a * 2^up, c * 2^dn), x[2] + dn - up)

\* x * a / c for integers a >= 0, 0 < c.
FMulDivR(x, a, c) ==
    FMulDivBy(x, a, c,
              IF a \div c >= 32 THEN BitLen(a \div c) - 5 ELSE 0,
              IF a < c /\ x[2] > 0 THEN Min(x[2], 6) ELSE 0)

\* base * 2^d as an integer, saturating at MaxInt.
ShiftSaturating(base, d) ==
    IF d <= 0 THEN RoundShift(base, -d)
    ELSE IF d > 30 \/ base > MaxInt \div 2^d THEN MaxInt
    ELSE base * 2^d

\* The integer nearest to x * scale / y for y > 0, x >= 0, saturating at
\* MaxInt.
FRatio(x, y, scale) ==
    IF x[1] \div y[1] >= (MaxInt \div scale) \div 2
    THEN MaxInt
    ELSE ShiftSaturating(MulDivR(x[1], scale, y[1]), x[2] - y[2])

\* math.log(x / y) for x, y > 0, in 1e-6.
FLnE6(x, y) ==
    (x[2] - y[2]) * Ln2E6
      + (IF x[1] >= y[1] THEN 1 ELSE -1)
          * LnE6(Max(x[1], y[1]), Min(x[1], y[1]))

\* ------------------------------------------------------------------------
\* rocket_physics.py: constants, propellant table, Stage, MultiStageRocket.
\* ------------------------------------------------------------------------

\* GRAVITY = 9.81 m/s^2, in 1e-2.
GRAVITY_E2 == 981

EARTH_RADIUS == 6371000

\* Character sequences, so that the code's substring tests can be evaluated.
Chars_LOX == <<"L", "O", "X">>

Name_LOX_LH2 == <<"L","i","q","u","i","d"," ","O","x","y","g","e","n","/",
                  "L","i","q","u","i","d"," ","H","y","d","r","o","g","e","n">>

Name_LOX_RP1 == <<"L","i","q","u","i","d"," ","O","x","y","g","e","n","/",
                  "R","P","-","1">>

Name_HTPB == <<"H","T","P","B"," ","S","o","l","i","d"," ",
               "P","r","o","p","e","l","l","a","n","t">>

PROPELLANT_COMBINATIONS ==
    [ LOX_LH2 |-> [name |-> Name_LOX_LH2, isp_vac |-> 450, isp_sl |-> 370],
      LOX_RP1 |-> [name |-> Name_LOX_RP1, isp_vac |-> 340, isp_sl |-> 280],
      HTPB    |-> [name |-> Name_HTPB,    isp_vac |-> 280, isp_sl |-> 250] ]

\* Python's "sub in text" on character sequences.
Contains(text, sub) ==
    \E k \in 0..(Len(text) - Len(sub)) :
        \A m \in 1..Len(sub) : text[k + m] = sub[m]

\* Stage._calculate_optimal_expansion_ratio: dispatch on the lower-cased
\* stage name.  The names are given as lower-cased character sequences.
Chars_first == <<"f","i","r","s","t">>

Chars_booster == <<"b","o","o","s","t","e","r">>

Chars_second == <<"s","e","c","o","n","d">>

Chars_third == <<"t","h","i","r","d">>

Chars_upper == <<"u","p","p","e","r">>

CalculateOptimalExpansionRatio(lname) ==
    IF Contains(lname, Chars_first) \/ Contains(lname, Chars_booster) THEN 10
    ELSE IF Contains(lname, Chars_second) THEN 40
    ELSE IF Contains(lname, Chars_third) \/ Contains(lname, Chars_upper) THEN 80
    ELSE 25

\* f"Stage {i+1}".lower() for the stage at index i (0-based).
StageNameLower(i) ==
    <<"s","t","a","g","e"," ">> \o << CASE i = 0 -> "1" [] i = 1 -> "2" [] OTHER -> "3" >>

\* math.log(num / den): the division raises ZeroDivisionError on a zero
\* divisor, math.log raises ValueError on a non-positive quotient.
LogRaises(num, den) == FIsZero(den) \/ ~FPositive(num) \/ ~FPositive(den)

\* propellant_mass / burn_time if burn_time > 0 else 0, in g/s.
FlowRate(propellant_mass, burn_time) ==
    IF burn_time > 0 THEN FMulDivR(propellant_mass, 1000000, burn_time)
    ELSE FZero

\* (dry_mass + propellant_mass) / dry_mass, in 1e-4.
MassRatioE4(total_mass, dry_mass) == FRatio(total_mass, dry_mass, 10000)

\* Stage.__init__: the stored fields and the derived ones.
NewStage(lname, dry_mass, propellant_mass, thrust_sl, thrust_vac, burn_time, diameter, length, propellant_type) ==
    [ name             |-> lname,
      dry_mass         |-> dry_mass,
      propellant_mass  |-> propellant_mass,
      thrust_sl        |-> thrust_sl,
      thrust_vac       |-> thrust_vac,
      burn_time        |-> burn_time,
      diameter         |-> diameter,
      length           |-> length,
      propellant       |-> IF propellant_type \in DOMAIN PROPELLANT_COMBINATIONS
                           THEN propellant_type ELSE "LOX_LH2",
      mass_ratio       |-> MassRatioE4(FAdd(dry_mass, propellant_mass), dry_mass),
      total_mass       |-> FAdd(dry_mass, propellant_mass),
      propellant_flow_rate |-> FlowRate(propellant_mass, burn_time),
      expansion_ratio  |-> CalculateOptimalExpansionRatio(lname) ]

\* get_total_mass after the first n passes of its loop: total starts at
\* payload_mass and total += stage.total_mass for each stage.
RECURSIVE SumTotalMass(_, _, _)
SumTotalMass(payload, stgs, n) ==
    IF n = 0 THEN FromInt(payload)
    ELSE FAdd(SumTotalMass(payload, stgs, n - 1), stgs[n].total_mass)

\* MultiStageRocket.get_total_mass: payload plus the stored stage totals.
GetTotalMass(payload, stgs) == SumTotalMass(payload, stgs, Len(stgs))

\* Python floats are IEEE-754 doubles with a 53-bit significand.  The
\* exponent of the unit in the last place of a double holding x:
DoubleBits == 53

UlpExp(x) == BitLen(Abs(x[1])) + x[2] - DoubleBits

\* The multiple of 2^k nearest to the payload.
RoundToUlp(payload, k) ==
    IF k <= 0 THEN payload
    ELSE IF k > 30 THEN 0
    ELSE RoundShift(payload, k) * 2^k

\* What get_total_mass() keeps of the payload: payload + sum is rounded to
\* the ulp of the result, so the payload's part of it is a multiple of that
\* ulp, and nothing once the payload is below half an ulp.
PayloadKept(payload, stgs) ==
    RoundToUlp(payload, UlpExp(GetTotalMass(payload, stgs)))

\* The masses get_total_delta_v takes off for stages n+1 .. Len(stgs):
\* stage.propellant_mass + stage.dry_mass each.
RECURSIVE SumBurnedFrom(_, _)
SumBurnedFrom(stgs, n) ==
    IF n >= Len(stgs) THEN FZero
    ELSE FAdd(SumBurnedFrom(stgs, n + 1),
              FAdd(stgs[n + 1].propellant_mass, stgs[n + 1].dry_mass))

\* get_total_delta_v: current_mass once stages 1..n have been taken off,
\* current_mass -= stage.propellant_mass + stage.dry_mass for each of them,
\* starting from get_total_mass().  What remains is what the sum kept of the
\* payload plus the stages not yet taken off.
MassAfterStages(payload, stgs, n) ==
    IF n = 0 THEN GetTotalMass(payload, stgs)
    ELSE FAdd(FromInt(PayloadKept(payload, stgs)), SumBurnedFrom(stgs, n))

\* The term one stage adds in get_total_delta_v, in cm/s:
\* GRAVITY * isp * math.log(stage_start_mass / current_mass).
StageDeltaVTerm(payload, stgs, n) ==
    MulDivR(FLnE6(MassAfterStages(payload, stgs, n - 1),
                  MassAfterStages(payload, stgs, n)),
            GRAVITY_E2 * PROPELLANT_COMBINATIONS[stgs[n].propellant].isp_vac,
            1000000)

\* MultiStageRocket.get_total_delta_v, in cm/s.
RECURSIVE SumDeltaV(_, _, _)
SumDeltaV(payload, stgs, n) ==
    IF n = 0 THEN 0
    ELSE SumDeltaV(payload, stgs, n - 1) + StageDeltaVTerm(payload, stgs, n)

GetTotalDeltaV(payload, stgs) == SumDeltaV(payload, stgs, Len(stgs))

\* get_total_delta_v raises (ZeroDivisionError or ValueError).
GetTotalDeltaVRaises(payload, stgs) ==
    \E n \in 1..Len(stgs) :
        LogRaises(MassAfterStages(payload, stgs, n - 1),
                  MassAfterStages(payload, stgs, n))

\* MultiStageRocket.get_height: stage lengths plus 10% for the fairing, mm.
RECURSIVE SumLength(_, _)
SumLength(stgs, n) ==
    IF n = 0 THEN 0 ELSE SumLength(stgs, n - 1) + stgs[n].length

GetHeight(stgs) ==
    SumLength(stgs, Len(stgs)) + MulDivR(SumLength(stgs, Len(stgs)), 1, 10)

\* MultiStageRocket.get_mass_fractions, as numerators over get_total_mass():
\* the payload, then every stage's dry and propellant mass.
GetMassFractions(payload, stgs) ==
    [ total      |-> GetTotalMass(payload, stgs),
      payload    |-> FromInt(payload),
      dry        |-> [n \in 1..Len(stgs) |-> stgs[n].dry_mass],
      propellant |-> [n \in 1..Len(stgs) |-> stgs[n].propellant_mass] ]

\* ------------------------------------------------------------------------
\* rocket_optimizer.py: RocketOptimizer.
\* ------------------------------------------------------------------------

\* RocketOptimizer.__init__: self.stage_l_to_d, in 1e-3, keyed by num_stages.
InitialStageLToD ==
    << <<8000>>, <<10000, 3500>>, <<8000, 5000, 3000>> >>

\* safety_factor = 1.2 (the constructor's default), in 1e-1.
SAFETY_FACTOR_E1 == 12

\* self.min_wall_thickness = lambda d: max(0.002, 0.004 * d), micrometres.
MinWallThickness(diameter) == Max(2000, 4 * diameter)

\* _initialize_rocket: altitude tier -> initial_mass_ratio.
InitialMassRatio(target) ==
    IF target < 100000 THEN 20 ELSE IF target < 400000 THEN 30 ELSE 50

\* _initialize_rocket: altitude tier -> base_diameter, mm.
BaseDiameter(target) ==
    IF target < 100000 THEN 1500 ELSE IF target < 400000 THEN 3700 ELSE 8400

\* _initialize_rocket: stage_mass_fractions, in 1e-2, keyed by num_stages.
StageMassFractions ==
    << <<100>>, <<80, 20>>, <<75, 20, 5>> >>

\* _initialize_rocket: stage_propellants, keyed by num_stages.
StagePropellants ==
    << <<"LOX_RP1">>, <<"LOX_RP1", "LOX_LH2">>,
       <<"LOX_RP1", "LOX_LH2", "LOX_LH2">> >>

\* _initialize_rocket, lines 160-187 of the loop body: burn time and Stage.
InitialStageBurning(target, i, propellant, stage_mass, propellant_mass, thrust_vac, diameter) ==
    NewStage(StageNameLower(i),
             FSub(stage_mass, propellant_mass),
             propellant_mass,
             IF i = 0 THEN FMulDivR(stage_mass, 14 * GRAVITY_E2, 1000)
             ELSE FZero,
             thrust_vac,
             IF FPositive(propellant_mass) /\ FPositive(thrust_vac)
             THEN FRatio(propellant_mass,
                         FMulDivR(thrust_vac, 100000,
                                  (IF propellant = "LOX_RP1" THEN 340 ELSE 450)
                                    * GRAVITY_E2),
                         1000000)
             ELSE 200000,
             diameter,
             diameter * (IF i = 0 THEN 10 ELSE IF i = 1 THEN 5 ELSE 3),
             propellant)

\* _initialize_rocket, lines 134-158 of the loop body: propellant and thrust.
InitialStageOfMass(target, n, i, stage_mass) ==
    InitialStageBurning(
        target, i, StagePropellants[n][i + 1], stage_mass,
        FMulDivR(stage_mass, IF i = 0 THEN 93 ELSE IF i = 1 THEN 90 ELSE 88,
                 100),
        IF i = 0 THEN FMulDivR(stage_mass, 16 * GRAVITY_E2, 1000)
        ELSE FMulDivR(stage_mass, 9 * GRAVITY_E2, 1000),
        MulDivR(BaseDiameter(target),
                IF i = 0 THEN 10 ELSE IF i = 1 THEN 9 ELSE 8, 10))

\* _initialize_rocket, the body of the loop for stage index i (0-based).
InitialStage(target, payload, n, i) ==
    InitialStageOfMass(
        target, n, i,
        FMulDivR(FromInt(payload * InitialMassRatio(target)),
                 StageMassFractions[n][i + 1], 100))

InitializeRocket(target, payload, n) ==
    [k \in 1..n |-> InitialStage(target, payload, n, k - 1)]

\* _estimate_altitude: the thrust-to-weight ratio at liftoff, in 1e-6.
TwrE6(payload, stgs) ==
    FRatio(FMulDivR(IF Len(stgs) > 0 THEN stgs[1].thrust_sl ELSE FZero,
                    100, GRAVITY_E2),
           GetTotalMass(payload, stgs), 1000000)

\* _estimate_altitude with the liftoff check at a ratio of 1.0.
TwrTooLow_BelowOne(payload, stgs) == TwrE6(payload, stgs) < 1000000

\* _estimate_altitude: whether the liftoff check fails (and the warning is
\* printed).
TwrTooLow(payload, stgs) == TwrE6(payload, stgs) < 1200000

\* _estimate_altitude: effective_delta_v, cm/s.
EffectiveDeltaV(payload, stgs) ==
    LET delta_v        == GetTotalDeltaV(payload, stgs)
        twr            == TwrE6(payload, stgs)
        gravity_loss   == MulDivR(225000, 1000000, twr)
        diameter       == stgs[1].diameter
        length         == GetHeight(stgs)
        fineness_ratio == MulDivR(length, 1000000, diameter)
        drag_loss      == MulDivR(MulDivR(90000, 1000000, fineness_ratio),
                                  diameter, 3000)
    IN  delta_v - gravity_loss - drag_loss

\* _estimate_altitude: the altitude for an effective delta-v v (cm/s), m.
AltitudeFromDeltaV(v) ==
    IF v <= 0 THEN 0
    ELSE IF v < 780000
    THEN MulDivR(MulDivR(v, v, 2 * GRAVITY_E2 * 100), 85, 100)
    ELSE LET orbital_radius ==
                 MulDivR(MulDivR(EARTH_RADIUS, GRAVITY_E2 * 100, v),
                         EARTH_RADIUS, v)
         IN  Max(0, orbital_radius - EARTH_RADIUS)

EstimateAltitude(payload, stgs) ==
    IF TwrTooLow(payload, stgs) THEN 0
    ELSE AltitudeFromDeltaV(EffectiveDeltaV(payload, stgs))

\* The ZeroDivisionError / ValueError cases of _estimate_altitude.
EstimateRaises(payload, stgs) ==
    \/ GetTotalDeltaVRaises(payload, stgs)
    \/ FIsZero(GetTotalMass(payload, stgs))
    \/ /\ ~TwrTooLow(payload, stgs)
       /\ (stgs[1].diameter = 0 \/ GetHeight(stgs) = 0)

\* Python's None and a present optional argument.
None == <<>>

Some(v) == <<v>>

\* _calculate_wall_thickness: tank_pressure, Pa.
TankPressure(st) ==
    IF Contains(PROPELLANT_COMBINATIONS[st.propellant].name, Chars_LOX)
    THEN 300000 ELSE 200000

\* _calculate_wall_thickness: yield_strength = 270e6 Pa, in kPa.
YIELD_STRENGTH_KPA == 270000

\* yield_strength / self.safety_factor, kPa.
AllowableStressKPa == MulDivR(YIELD_STRENGTH_KPA, 10, SAFETY_FACTOR_E1)

\* _calculate_wall_thickness: payload plus self.stages[:stage_index], kg.
RECURSIVE StageMassAbove(_, _, _)
StageMassAbove(payload, stgs, stage_index) ==
    IF stage_index = 0 THEN FromInt(payload)
    ELSE FAdd(StageMassAbove(payload, stgs, stage_index - 1),
              stgs[stage_index].total_mass)

\* _calculate_wall_thickness: thickness from the hoop stress, micrometres.
MinThicknessPressure(st, stage_index) ==
    LET external_pressure == IF stage_index = 0 THEN 101325 ELSE 0
        delta_p           == TankPressure(st) - external_pressure
    IN  MulDivR(delta_p, st.diameter, 2 * AllowableStressKPa)

\* _calculate_wall_thickness: thickness from the axial load, micrometres.
MinThicknessAccel(payload, stgs, stage_index) ==
    LET st           == stgs[stage_index + 1]
        accel_force  == FMulDivR(StageMassAbove(payload, stgs, stage_index),
                                 5 * GRAVITY_E2, 100)
        cross_area   == MulDivR(st.diameter * st.diameter, PiE6, 4000000)
        accel_stress == FMulDivR(accel_force, 1000, cross_area)
    IN  FMulDivR(accel_stress, st.diameter * 1000, 2 * AllowableStressKPa)

\* _calculate_wall_thickness returning min_thickness, the practical
\* minimum left out.
CalculateWallThickness_NoPracticalMin(payload, stgs, stage_index) ==
    FMax(FromInt(MinThicknessPressure(stgs[stage_index + 1], stage_index)),
         MinThicknessAccel(payload, stgs, stage_index))

\* _calculate_wall_thickness(stage_index), micrometres.
CalculateWallThickness(payload, stgs, stage_index) ==
    LET st            == stgs[stage_index + 1]
        min_thickness == FMax(FromInt(MinThicknessPressure(st, stage_index)),
                              MinThicknessAccel(payload, stgs, stage_index))
        practical_min == FromInt(MinWallThickness(st.diameter))
    IN  FMax(min_thickness, practical_min)

\* _update_stage_mass with the floor left out: the mass is written as given.
ClampMass_NoFloor(m) == m

\* _update_stage_mass: the floor put on a mass that is written.
ClampMass(m) == FMax(FromInt(100), m)

\* _update_stage_mass with the ratio turned over: dry_mass / total_mass.
StoredMassRatio_Inverted(total, dry) ==
    IF FPositive(dry) THEN MassRatioE4(dry, total) ELSE 10000

\* _update_stage_mass, line 334: stage.mass_ratio, in 1e-4.
StoredMassRatio(total, dry) ==
    IF FPositive(dry) THEN MassRatioE4(total, dry) ELSE 10000

\* _update_stage_mass, lines 337-345: the engine parameters for the new
\* masses.
UpdateEngine(st, stage_index, prop, dry, total, flow) ==
    [st EXCEPT
       !.propellant_mass = prop,
       !.dry_mass = dry,
       !.total_mass = total,
       !.mass_ratio = StoredMassRatio(total, dry),
       !.propellant_flow_rate = flow,
       !.thrust_vac = IF FPositive(prop)
                      THEN FMulDivR(flow,
                             PROPELLANT_COMBINATIONS[st.propellant].isp_vac
                               * GRAVITY_E2, 100000)
                      ELSE st.thrust_vac,
       !.thrust_sl = IF FPositive(prop)
                     THEN (IF stage_index = 0
                           THEN FMulDivR(flow,
                                  PROPELLANT_COMBINATIONS[st.propellant].isp_sl
                                    * GRAVITY_E2, 100000)
                           ELSE FZero)
                     ELSE st.thrust_sl,
       !.expansion_ratio = CalculateOptimalExpansionRatio(st.name)]

\* _update_stage_mass without line 333: total_mass is not recomputed.
UpdateTotals_StaleTotal(st, stage_index, prop, dry) ==
    UpdateEngine(st, stage_index, prop, dry, st.total_mass,
                 IF FPositive(prop) THEN FlowRate(prop, st.burn_time)
                 ELSE st.propellant_flow_rate)

\* _update_stage_mass, lines 332-338: total mass and flow rate for the
\* masses prop and dry.
UpdateTotals(st, stage_index, prop, dry) ==
    UpdateEngine(st, stage_index, prop, dry, FAdd(dry, prop),
                 IF FPositive(prop) THEN FlowRate(prop, st.burn_time)
                 ELSE st.propellant_flow_rate)

\* _update_stage_mass(stage_index, new_propellant_mass, new_dry_mass) on
\* stage st; the trailing _calculate_engine_parameters is included.
UpdateStageMass(st, stage_index, new_propellant_mass, new_dry_mass) ==
    UpdateTotals(st, stage_index,
                 IF new_propellant_mass # None
                 THEN ClampMass(new_propellant_mass[1])
                 ELSE st.propellant_mass,
                 IF new_dry_mass # None
                 THEN ClampMass(new_dry_mass[1])
                 ELSE st.dry_mass)

\* _adjust_stage_geometry without the max(0.5, .) and max(1.0, .) floors.
AdjustStageGeometry_NoFloor(st, new_diameter, new_length) ==
    [st EXCEPT
       !.diameter = IF new_diameter # None THEN new_diameter[1]
                    ELSE st.diameter,
       !.expansion_ratio = CalculateOptimalExpansionRatio(st.name),
       !.length = IF new_length # None THEN new_length[1]
                  ELSE st.length]

\* _adjust_stage_geometry(stage_index, new_diameter, new_length) on stage st.
AdjustStageGeometry(st, new_diameter, new_length) ==
    [st EXCEPT
       !.diameter = IF new_diameter # None THEN Max(500, new_diameter[1])
                    ELSE st.diameter,
       !.expansion_ratio = CalculateOptimalExpansionRatio(st.name),
       !.length = IF new_length # None THEN Max(1000, new_length[1])
                  ELSE st.length]

\* _adjust_structural_mass: new_dry_mass for the stage at stage_index, kg.
NewDryMass(payload, stgs, stage_index) ==
    LET st                == stgs[stage_index + 1]
        wall_thickness    == CalculateWallThickness(payload, stgs, stage_index)
        tank_height       == MulDivR(st.length, 8, 10)
        tank_surface_area == MulDivR(MulDivR(st.diameter, tank_height, 100),
                                     PiE6, 1000000)
        tank_mass         == FMulDivR(FMulDivR(wall_thickness, tank_surface_area,
                                               10000), 27, 10000)
        engine_mass       == FMulDivR(st.propellant_mass,
                                      IF stage_index = 0 THEN 3 ELSE 2, 100)
        avionics_mass     == FMulDivR(st.total_mass, 1, 100)
        structural_mass   == FMulDivR(st.dry_mass,
                                      IF stage_index = 0 THEN 4 ELSE 3, 100)
    IN  FMulDivR(FAdd(FAdd(FAdd(tank_mass, engine_mass), avionics_mass),
                      structural_mass), 108, 100)

\* _adjust_structural_mass: the loop over the stages, in order; the stage at
\* index i is sized with the stages before it already updated.
RECURSIVE AdjustStructuralMassUpTo(_, _, _)
AdjustStructuralMassUpTo(payload, stgs, n) ==
    IF n = 0 THEN stgs
    ELSE LET prev == AdjustStructuralMassUpTo(payload, stgs, n - 1)
         IN  [prev EXCEPT ![n] =
                 UpdateStageMass(prev[n], n - 1, None,
                                 Some(NewDryMass(payload, prev, n - 1)))]

AdjustStructuralMass(payload, stgs) ==
    AdjustStructuralMassUpTo(payload, stgs, Len(stgs))

\* _adjust_geometry: the new length-to-diameter ratio of one stage, in 1e-3.
NewLToD(l_to_d, need_more) ==
    Max(3000, Min(12000, IF need_more THEN MulDivR(l_to_d, 95, 100)
                                      ELSE MulDivR(l_to_d, 105, 100)))

\* _adjust_geometry: new_length = (volume * new_l_to_d * 4 / pi) ** (1/3)
\* with volume = pi * (d/2)**2 * l, i.e. the cube root of d*d*l*new_l_to_d.
NewLength(st, new_l_to_d) == Cbrt(st.diameter, st.length, new_l_to_d)

\* _adjust_geometry, lines 508-511, for one stage.
ResizeStage(st, new_l_to_d, new_length) ==
    AdjustStageGeometry(st, Some(MulDivR(new_length, 1000, new_l_to_d)),
                        Some(new_length))

\* _adjust_geometry, lines 500-511, for one stage.
ReshapeStage(st, new_l_to_d) ==
    ResizeStage(st, new_l_to_d, NewLength(st, new_l_to_d))

\* _adjust_geometry(error_ratio) on the stages; need_more is error_ratio > 0.
AdjustGeometryStages(stgs, l_to_d, need_more) ==
    [k \in 1..Len(stgs) |->
        ReshapeStage(stgs[k], NewLToD(l_to_d[k], need_more))]

\* _adjust_geometry(error_ratio) on self.stage_l_to_d[self.num_stages].
AdjustGeometryLToD(stgs, l_to_d, need_more) ==
    [k \in 1..Len(stgs) |-> NewLToD(l_to_d[k], need_more)]

\* x * a / c for an integer a of either sign.
FScale(x, a, c) == FMulDivR(IF a < 0 THEN FNeg(x) ELSE x, Abs(a), c)

\* optimize_to_altitude: error_ratio = altitude_error / target_altitude, 1e-6.
ErrorRatioE6(target, altitude) == MulDivR(target - altitude, 1000000, target)

\* optimize_to_altitude: abs(error_ratio) < 0.05.
WithinTolerance(target, altitude) == Abs(target - altitude) * 20 < target

\* optimize_to_altitude: error_ratio > 0.2.
LargeUndershoot(target, altitude) == (target - altitude) * 5 > target

\* optimize_to_altitude: stage_factor, in 1e-1.
StageFactorE1(j) == IF j = 0 THEN 10 ELSE IF j = 1 THEN 5 ELSE 2

\* optimize_to_altitude: stage.thrust_vac *= 1.1, and thrust_sl for j == 0.
BoostThrust(st, j) ==
    [st EXCEPT !.thrust_vac = FMulDivR(st.thrust_vac, 11, 10),
               !.thrust_sl  = IF j = 0 THEN FMulDivR(st.thrust_sl, 11, 10)
                              ELSE st.thrust_sl]

\* optimize_to_altitude, lines 404-408: the thrust increase on a significant
\* undershoot.
BoostIfUndershoot(updated, j, target, altitude) ==
    IF target - altitude > 0 /\ LargeUndershoot(target, altitude)
    THEN BoostThrust(updated, j)
    ELSE updated

\* optimize_to_altitude, lines 397-402: the propellant update of the stage
\* at index j, self._update_stage_mass(j, new_propellant_mass=new_propellant).
PropellantUpdate(st, j, target, altitude, af) ==
    UpdateStageMass(
        st, j,
        Some(FAdd(st.propellant_mass,
                  FScale(FScale(FScale(st.propellant_mass,
                                       ErrorRatioE6(target, altitude),
                                       1000000),
                                af, 1000),
                         StageFactorE1(j), 10))),
        None)

\* optimize_to_altitude: the body of "for j, stage in enumerate(self.stages)"
\* for the stage at index j; af is adjustment_factor in 1e-3.
AdjustPropellant(st, j, target, altitude, af) ==
    BoostIfUndershoot(PropellantUpdate(st, j, target, altitude, af),
                      j, target, altitude)

\* optimize_to_altitude, lines 416-418: the geometry is adjusted in every
\* third iteration.
AdjustGeometryEveryThird(stgs, l_to_d, target, altitude, it) ==
    IF it % 3 = 0
    THEN AdjustGeometryStages(stgs, l_to_d, target - altitude > 0)
    ELSE stgs

\* optimize_to_altitude: the stages at the end of the body of iteration it,
\* before the altitude is estimated again.
IterationStages(payload, stgs, l_to_d, target, altitude, af, it) ==
    AdjustGeometryEveryThird(
        AdjustStructuralMass(
            payload,
            [k \in 1..Len(stgs) |->
                AdjustPropellant(stgs[k], k - 1, target, altitude, af)]),
        l_to_d, target, altitude, it)

\* optimize_to_altitude: self.stage_l_to_d at the end of iteration it.
IterationLToD(stgs, l_to_d, target, altitude, it) ==
    IF it % 3 = 0 THEN AdjustGeometryLToD(stgs, l_to_d, target - altitude > 0)
    ELSE l_to_d

\* The record with its iteration number left at 0.
HistoryRecord_IterationZero(it, altitude, payload, stgs) ==
    [ iteration  |-> 0,
      altitude   |-> altitude,
      total_mass |-> GetTotalMass(payload, stgs),
      delta_v    |-> GetTotalDeltaV(payload, stgs),
      stages     |-> [k \in 1..Len(stgs) |->
                         [dry_mass |-> stgs[k].dry_mass,
                          propellant_mass |-> stgs[k].propellant_mass]] ]

\* optimize_to_altitude: the record appended to optimization_history.
HistoryRecord(it, altitude, payload, stgs) ==
    [ iteration  |-> it,
      altitude   |-> altitude,
      total_mass |-> GetTotalMass(payload, stgs),
      delta_v    |-> GetTotalDeltaV(payload, stgs),
      stages     |-> [k \in 1..Len(stgs) |->
                         [dry_mass |-> stgs[k].dry_mass,
                          propellant_mass |-> stgs[k].propellant_mass]] ]

\* _optimize_mass: new_propellant = current_propellant * (1 - reduction_step).
ReducedPropellant(current_propellant) == FMulDivR(current_propellant, 98, 100)

\* The trial test without its altitude part.
TrialRejected_MassRatioOnly(target, new_altitude, st) ==
    st.mass_ratio > 100000

\* _optimize_mass: the trial is rejected,
\* new_altitude < self.target_altitude * 0.95 or stage.mass_ratio > 10.
TrialRejected(target, new_altitude, st) ==
    new_altitude * 100 < target * 95 \/ st.mass_ratio > 100000

\* _optimize_mass: max_iterations.
MaxReductions == 10

\* _optimize_mass from pass j of the inner loop of stage s (0-based) to the
\* end of the outer loop; alt is self.max_altitude.
RECURSIVE OptimizeMassFrom(_, _, _, _, _, _)
OptimizeMassFrom(payload, target, stgs, alt, s, j) ==
    IF s >= Len(stgs)
    THEN [raised |-> FALSE, stages |-> stgs, max_altitude |-> alt]
    ELSE IF j >= MaxReductions
    THEN OptimizeMassFrom(payload, target, stgs, alt, s + 1, 0)
    ELSE LET reduced == UpdateStageMass(
                            stgs[s + 1], s,
                            Some(ReducedPropellant(stgs[s + 1].propellant_mass)),
                            None)
             tried   == [stgs EXCEPT ![s + 1] = reduced]
         IN  IF EstimateRaises(payload, tried)
             THEN [raised |-> TRUE, stages |-> tried, max_altitude |-> alt]
             ELSE LET new_altitude == EstimateAltitude(payload, tried)
                  IN  IF TrialRejected(target, new_altitude, reduced)
                      THEN OptimizeMassFrom(
                               payload, target,
                               [stgs EXCEPT ![s + 1] =
                                   UpdateStageMass(
                                       reduced, s,
                                       Some(stgs[s + 1].propellant_mass),
                                       None)],
                               alt, s + 1, 0)
                      ELSE OptimizeMassFrom(payload, target, tried,
                                            new_altitude, s, j + 1)

\* _optimize_mass as one call: the loops, _adjust_structural_mass and the
\* final altitude estimate.
OptimizeMassEnd(payload, loops, adjusted) ==
    IF loops.raised THEN loops
    ELSE IF EstimateRaises(payload, adjusted)
    THEN [raised |-> TRUE, stages |-> adjusted,
          max_altitude |-> loops.max_altitude]
    ELSE [raised |-> FALSE, stages |-> adjusted,
          max_altitude |-> EstimateAltitude(payload, adjusted)]

OptimizeMass(payload, target, stgs, alt) ==
    LET loops == OptimizeMassFrom(payload, target, stgs, alt, 0, 0)
    IN  OptimizeMassEnd(payload, loops,
                        IF loops.raised THEN loops.stages
                        ELSE AdjustStructuralMass(payload, loops.stages))

\* ------------------------------------------------------------------------
\* The optimizer as a state machine: one RocketOptimizer object and one call
\* of optimize_to_altitude on it.
\* ------------------------------------------------------------------------

VARIABLES
    target_altitude,       \* self.target_altitude, m
    payload_mass,          \* self.payload_mass, kg
    num_stages,            \* self.num_stages
    stages,                \* self.stages (= self.rocket.stages)
    stage_l_to_d,          \* self.stage_l_to_d[self.num_stages]
    max_altitude,          \* self.max_altitude, m
    optimization_history,  \* self.optimization_history
    pc,                    \* where the call of optimize_to_altitude stands
    iterations,            \* the argument iterations
    adjustment_factor,     \* the argument adjustment_factor, in 1e-3
    i,                     \* the loop variable of optimize_to_altitude
    mm_stage,              \* _optimize_mass: the stage index of the outer loop
    mm_j,                  \* _optimize_mass: the trial index of the inner loop
    optimize_mass_calls    \* how many times _optimize_mass has been entered

optVars == <<target_altitude, payload_mass, num_stages, stages, stage_l_to_d,
             max_altitude, optimization_history, pc, iterations,
             adjustment_factor, i, mm_stage, mm_j, optimize_mass_calls>>

\* One RocketPerformanceAnalyzer object and one call of
\* calculate_maximum_payload on it.  Masses are in 1/128 kg, so that the
\* halved steps 25, 12.5, ... 0.1953125 kg are integers.
VARIABLES
    analyzer_dry_mass,         \* self.dry_mass
    original_dry_mass,     \* the local original_dry_mass
    current_payload,       \* the local current_payload
    step,                  \* the local step
    current_altitude,      \* the local current_altitude, m
    search_target,         \* the local target_altitude after defaulting, m
    altitude_range,        \* the local altitude_range after defaulting, m
    maximize_payload,      \* the local maximize_payload
    apc,                   \* where the call of calculate_maximum_payload
                           \* stands, or "trajectory_raised" after a direct
                           \* call of analyze_trajectory has raised
    apogee_of,             \* analyze_trajectory()["apogee"] by dry mass, as far
                           \* as it has been evaluated
    probes,                \* the <<dry mass, step>> of every evaluation in the loop
    total_mass,            \* self.total_mass
    performance_metrics,   \* self.performance_metrics: <<>>, or <<thrust>>
    trajectory_data        \* self.trajectory_data: <<>>, or <<trajectory>>

payVars == <<analyzer_dry_mass, original_dry_mass, current_payload, step,
             current_altitude, search_target, altitude_range,
             maximize_payload, apc, apogee_of, probes, total_mass,
             performance_metrics, trajectory_data>>

\* One Stage object built on its own and one call of get_delta_v on it.
VARIABLES
    stage_obj,       \* the arguments of Stage(...), then the Stage's fields
    stage_pc,        \* "requested", "constructed", "called", or "raised"
    stage_delta_v    \* what get_delta_v returned, cm/s: <<v>>, or <<>>

stgVars == <<stage_obj, stage_pc, stage_delta_v>>

\* Two RocketOptimizer objects in one interpreter, and the module-level
\* dictionary PROPELLANT_COMBINATIONS every Stage refers to.
VARIABLES
    optimizers,               \* the two objects, each a record of its fields
    propellant_combinations   \* rocket_physics.PROPELLANT_COMBINATIONS

duoVars == <<optimizers, propellant_combinations>>

vars == <<optVars, payVars, stgVars, duoVars>>

\* Inputs of the runs that are explored.
Targets == {50000, 150000, 2500000}

Payloads == {2000, 200000}

MaxStages == 3

MaxIterations == 200

IterationBudgets == (0..4) \cup {MaxIterations}

AdjustmentFactors == {200, -320, -660}

\* RocketOptimizer.__init__ followed by nothing else: the object as the
\* constructor leaves it.
OptInit ==
    /\ target_altitude \in Targets
    /\ payload_mass \in Payloads
    /\ num_stages \in 1..MaxStages
    /\ stages = InitializeRocket(target_altitude, payload_mass, num_stages)
    /\ stage_l_to_d = InitialStageLToD[num_stages]
    /\ max_altitude = EstimateAltitude(payload_mass, stages)
    /\ optimization_history = <<>>
    /\ pc = "constructed"
    /\ iterations = 0
    /\ adjustment_factor = 200
    /\ i = 0
    /\ mm_stage = 0
    /\ mm_j = 0
    /\ optimize_mass_calls = 0

\* optimize_to_altitude(iterations, adjustment_factor) up to the for loop:
\* the initial state is recorded.
OptimizeToAltitude ==
    /\ pc = "constructed"
    /\ \E n \in IterationBudgets, af \in AdjustmentFactors :
          /\ iterations' = n
          /\ adjustment_factor' = af
          /\ pc' = IF n >= 1 THEN "converging" ELSE "finalize"
    /\ optimization_history' =
          Append(optimization_history,
                 HistoryRecord(0, max_altitude, payload_mass, stages))
    /\ i' = 1
    /\ UNCHANGED <<target_altitude, payload_mass, num_stages, stages,
                   stage_l_to_d, max_altitude, mm_stage, mm_j,
                   optimize_mass_calls>>
    /\ UNCHANGED payVars
    /\ UNCHANGED stgVars
    /\ UNCHANGED duoVars

\* One pass of the for loop that does not meet the tolerance: propellant,
\* structure, geometry, altitude estimate, history record.
ConvergingStep ==
    /\ pc = "converging"
    /\ ~WithinTolerance(target_altitude, max_altitude)
    /\ \E new_stages \in {IterationStages(payload_mass, stages, stage_l_to_d,
                                          target_altitude, max_altitude,
                                          adjustment_factor, i)} :
          /\ stages' = new_stages
          /\ IF EstimateRaises(payload_mass, new_stages)
             THEN /\ pc' = "raised"
                  /\ UNCHANGED <<max_altitude, optimization_history, i>>
             ELSE \E new_altitude \in {EstimateAltitude(payload_mass, new_stages)} :
                  /\ max_altitude' = new_altitude
                  /\ optimization_history' =
                        Append(optimization_history,
                               HistoryRecord(i, new_altitude, payload_mass,
                                             new_stages))
                  /\ i' = i + 1
                  /\ pc' = IF i + 1 <= iterations THEN "converging"
                           ELSE "finalize"
    /\ stage_l_to_d' = IterationLToD(stages, stage_l_to_d, target_altitude,
                                     max_altitude, i)
    /\ UNCHANGED <<target_altitude, payload_mass, num_stages, iterations,
                   adjustment_factor, mm_stage, mm_j, optimize_mass_calls>>
    /\ UNCHANGED payVars
    /\ UNCHANGED stgVars
    /\ UNCHANGED duoVars

\* The pass of the for loop that meets the tolerance: _optimize_mass is
\* called and the loop is left afterwards.
EnterOptimizeMass ==
    /\ pc = "converging"
    /\ WithinTolerance(target_altitude, max_altitude)
    /\ pc' = "optimize_mass"
    /\ mm_stage' = 0
    /\ mm_j' = 0
    /\ optimize_mass_calls' = optimize_mass_calls + 1
    /\ UNCHANGED <<target_altitude, payload_mass, num_stages, stages,
                   stage_l_to_d, max_altitude, optimization_history,
                   iterations, adjustment_factor, i>>
    /\ UNCHANGED payVars
    /\ UNCHANGED stgVars
    /\ UNCHANGED duoVars

\* _optimize_mass: one pass of the inner loop, a 2% reduction of the
\* propellant of stage mm_stage that is kept or reverted.
ReductionTrial ==
    /\ pc = "optimize_mass"
    /\ mm_stage < num_stages
    /\ \E reduced \in {UpdateStageMass(
                          stages[mm_stage + 1], mm_stage,
                          Some(ReducedPropellant(
                                 stages[mm_stage + 1].propellant_mass)),
                          None)} :
       \E tried \in {[stages EXCEPT ![mm_stage + 1] = reduced]} :
          IF EstimateRaises(payload_mass, tried)
          THEN /\ stages' = tried
               /\ pc' = "raised"
               /\ UNCHANGED <<max_altitude, mm_stage, mm_j>>
          ELSE \E new_altitude \in {EstimateAltitude(payload_mass, tried)} :
               IF TrialRejected(target_altitude, new_altitude, reduced)
               THEN /\ stages' = [stages EXCEPT ![mm_stage + 1] =
                                    UpdateStageMass(
                                        reduced, mm_stage,
                                        Some(stages[mm_stage + 1].propellant_mass),
                                        None)]
                    /\ mm_stage' = mm_stage + 1
                    /\ mm_j' = 0
                    /\ UNCHANGED <<max_altitude, pc>>
               ELSE /\ stages' = tried
                    /\ max_altitude' = new_altitude
                    /\ mm_stage' = IF mm_j + 1 < MaxReductions
                                   THEN mm_stage ELSE mm_stage + 1
                    /\ mm_j' = IF mm_j + 1 < MaxReductions
                               THEN mm_j + 1 ELSE 0
                    /\ UNCHANGED pc
    /\ UNCHANGED <<target_altitude, payload_mass, num_stages, stage_l_to_d,
                   optimization_history, iterations, adjustment_factor, i,
                   optimize_mass_calls>>
    /\ UNCHANGED payVars
    /\ UNCHANGED stgVars
    /\ UNCHANGED duoVars

\* _optimize_mass after its loops: the structural mass and the altitude are
\* recomputed; optimize_to_altitude then breaks out of its for loop.
FinishOptimizeMass ==
    /\ pc = "optimize_mass"
    /\ mm_stage = num_stages
    /\ \E new_stages \in {AdjustStructuralMass(payload_mass, stages)} :
          /\ stages' = new_stages
          /\ IF EstimateRaises(payload_mass, new_stages)
             THEN /\ pc' = "raised"
                  /\ UNCHANGED max_altitude
             ELSE /\ pc' = "finalize"
                  /\ max_altitude' = EstimateAltitude(payload_mass, new_stages)
    /\ UNCHANGED <<target_altitude, payload_mass, num_stages, stage_l_to_d,
                   optimization_history, iterations, adjustment_factor, i,
                   mm_stage, mm_j, optimize_mass_calls>>
    /\ UNCHANGED payVars
    /\ UNCHANGED stgVars
    /\ UNCHANGED duoVars

\* optimize_to_altitude after the for loop: _adjust_structural_mass once
\* more, the design is printed and self.rocket is returned.
Finalize ==
    /\ pc = "finalize"
    /\ stages' = AdjustStructuralMass(payload_mass, stages)
    /\ pc' = "returned"
    /\ UNCHANGED <<target_altitude, payload_mass, num_stages, stage_l_to_d,
                   max_altitude, optimization_history, iterations,
                   adjustment_factor, i, mm_stage, mm_j, optimize_mass_calls>>
    /\ UNCHANGED payVars
    /\ UNCHANGED stgVars
    /\ UNCHANGED duoVars

\* _optimize_mass called once more on the design its first call left.
OptimizeMassAgain ==
    /\ pc = "finalize"
    /\ optimize_mass_calls = 1
    /\ \E run \in {OptimizeMass(payload_mass, target_altitude, stages,
                                max_altitude)} :
          /\ stages' = run.stages
          /\ max_altitude' = run.max_altitude
          /\ pc' = IF run.raised THEN "raised" ELSE "finalize"
    /\ optimize_mass_calls' = 2
    /\ UNCHANGED <<target_altitude, payload_mass, num_stages, stage_l_to_d,
                   optimization_history, iterations, adjustment_factor, i,
                   mm_stage, mm_j>>
    /\ UNCHANGED payVars
    /\ UNCHANGED stgVars
    /\ UNCHANGED duoVars

\* _optimize_mass called on the object as __init__ left it, outside
\* optimize_to_altitude.
CallOptimizeMass ==
    /\ pc = "constructed"
    /\ pc' = "optimize_mass"
    /\ mm_stage' = 0
    /\ mm_j' = 0
    /\ optimize_mass_calls' = optimize_mass_calls + 1
    /\ UNCHANGED <<target_altitude, payload_mass, num_stages, stages,
                   stage_l_to_d, max_altitude, optimization_history,
                   iterations, adjustment_factor, i>>
    /\ UNCHANGED payVars
    /\ UNCHANGED stgVars
    /\ UNCHANGED duoVars

OptNext ==
    \/ OptimizeToAltitude
    \/ ConvergingStep
    \/ EnterOptimizeMass
    \/ ReductionTrial
    \/ FinishOptimizeMass
    \/ Finalize

\* ---------------------------------------------------------------------
\* Two optimizers side by side
\* ---------------------------------------------------------------------

\* No second optimizer exists; the propellant table is as the module
\* defines it.
DuoIdleInit ==
    /\ optimizers = <<>>
    /\ propellant_combinations = PROPELLANT_COMBINATIONS

\* RocketOptimizer(target, payload, stages=n) as the constructor leaves it.
NewOptimizer(target, payload, n, stgs) ==
    [ target_altitude      |-> target,
      payload_mass         |-> payload,
      num_stages           |-> n,
      stages               |-> stgs,
      stage_l_to_d         |-> InitialStageLToD[n],
      max_altitude         |-> EstimateAltitude(payload, stgs),
      optimization_history |-> <<>>,
      pc                   |-> "constructed",
      iterations           |-> 0,
      adjustment_factor    |-> 200,
      i                    |-> 0,
      optimize_mass_calls  |-> 0 ]

\* optimize_to_altitude(n, af) of object o up to the for loop.
StartOf(o, n, af) ==
    [o EXCEPT !.iterations = n,
              !.adjustment_factor = af,
              !.pc = IF n >= 1 THEN "converging" ELSE "finalize",
              !.optimization_history =
                  Append(@, HistoryRecord(0, o.max_altitude, o.payload_mass,
                                          o.stages)),
              !.i = 1]

\* One pass of the for loop of object o that does not meet the tolerance.
ConvergingOf(o, new_stages, new_l_to_d) ==
    IF EstimateRaises(o.payload_mass, new_stages)
    THEN [o EXCEPT !.stages = new_stages,
                   !.stage_l_to_d = new_l_to_d,
                   !.pc = "raised"]
    ELSE [o EXCEPT !.stages = new_stages,
                   !.stage_l_to_d = new_l_to_d,
                   !.max_altitude = EstimateAltitude(o.payload_mass, new_stages),
                   !.optimization_history =
                       Append(@, HistoryRecord(
                                     o.i,
                                     EstimateAltitude(o.payload_mass, new_stages),
                                     o.payload_mass, new_stages)),
                   !.i = o.i + 1,
                   !.pc = IF o.i + 1 <= o.iterations THEN "converging"
                          ELSE "finalize"]

\* The pass of the for loop of object o that meets the tolerance:
\* _optimize_mass, then break.
MinimizingOf(o, run) ==
    [o EXCEPT !.stages = run.stages,
              !.max_altitude = run.max_altitude,
              !.pc = IF run.raised THEN "raised" ELSE "finalize",
              !.optimize_mass_calls = o.optimize_mass_calls + 1]

\* One step of optimize_to_altitude(n, af) on object o.
OptimizerStep(o, n, af) ==
    CASE o.pc = "constructed" -> StartOf(o, n, af)
      [] o.pc = "converging"
         /\ ~WithinTolerance(o.target_altitude, o.max_altitude) ->
            ConvergingOf(o,
                         IterationStages(o.payload_mass, o.stages,
                                         o.stage_l_to_d, o.target_altitude,
                                         o.max_altitude, o.adjustment_factor,
                                         o.i),
                         IterationLToD(o.stages, o.stage_l_to_d,
                                       o.target_altitude, o.max_altitude,
                                       o.i))
      [] o.pc = "converging"
         /\ WithinTolerance(o.target_altitude, o.max_altitude) ->
            MinimizingOf(o, OptimizeMass(o.payload_mass, o.target_altitude,
                                         o.stages, o.max_altitude))
      [] o.pc = "finalize" ->
            [o EXCEPT !.stages = AdjustStructuralMass(o.payload_mass, o.stages),
                      !.pc = "returned"]
      [] OTHER -> o

\* The heap after object k has taken a step whose result is new; every
\* object has its own stage_l_to_d dictionary, created in __init__.
StepOfInstance_SharedLToD(os, k, new) ==
    [m \in DOMAIN os |->
        IF m = k THEN new
        ELSE IF os[m].num_stages = new.num_stages
        THEN [os[m] EXCEPT !.stage_l_to_d = new.stage_l_to_d]
        ELSE os[m]]

StepOfInstance(os, k, new) == [os EXCEPT ![k] = new]

\* The inputs of the two objects.
DuoTargets == {150000, 2500000}
DuoPayloads == {200000}
DuoStages == {1, 2}
DuoBudgets == {1, 4}

DuoInit ==
    /\ optimizers \in
          [1..2 -> {NewOptimizer(t, p, n, InitializeRocket(t, p, n)) :
                       t \in DuoTargets, p \in DuoPayloads, n \in DuoStages}]
    /\ propellant_combinations = PROPELLANT_COMBINATIONS

\* Object k takes its next step; the other object is not touched.
InstanceStep ==
    /\ \E k \in 1..2 :
          /\ optimizers[k].pc \notin {"returned", "raised"}
          /\ \E n \in DuoBudgets, af \in AdjustmentFactors :
                optimizers' =
                    StepOfInstance(optimizers, k,
                                   OptimizerStep(optimizers[k], n, af))
    /\ UNCHANGED propellant_combinations
    /\ UNCHANGED optVars
    /\ UNCHANGED payVars
    /\ UNCHANGED stgVars

DuoNext == InstanceStep

\* optimize_to_altitude(n, af) on object o run alone to its end.
RECURSIVE RunAlone(_, _, _)
RunAlone(o, n, af) ==
    IF o.pc \in {"returned", "raised"} THEN o
    ELSE RunAlone(OptimizerStep(o, n, af), n, af)

\* ---------------------------------------------------------------------
\* RocketPerformanceAnalyzer.calculate_maximum_payload
\* ---------------------------------------------------------------------

\* Mass units per kilogram in the analyzer's state.
MassUnit == 2^7

\* _calculate_dry_mass: stage 1, stage 2, payload and structure.
CalculateDryMass == (200 + 100 + 50 + 150) * MassUnit

\* current_payload = 50 and step = 25 at the start of the search.
BaselinePayload == 50 * MassUnit

InitialStep == 25 * MassUnit

\* The loop condition step >= min_step, with min_step = 0.1 kg.
StepAtLeastMin(s) == s * 10 >= MassUnit

\* min_acceptable_altitude, the target of a search without target_altitude.
MinAcceptableAltitude == 1000

\* altitude_range = target_altitude * 0.05 when none is given.
DefaultAltitudeRange(target) == target \div 20

\* analyze_trajectory integrates the flight of the vehicle as it is now and
\* returns its apogee, or raises.  The apogee is a function of self.dry_mass
\* (every other input is fixed during the search); what function is left
\* open: the value for a dry mass is chosen when that dry mass is first
\* evaluated and is the same ever after.
\* An evaluation ends in <<apogee>> or, when it raises, in <<>>.
Raises == <<>>

Apogees == {500, 10000, 12000}

TrajectoryOutcomes == {<<apogee>> : apogee \in Apogees} \cup {Raises}

AnalyzeTrajectory(known, dry) ==
    IF dry \in DOMAIN known THEN {known[dry]} ELSE TrajectoryOutcomes

Evaluated(known, dry, outcome) ==
    IF dry \in DOMAIN known THEN known ELSE known @@ (dry :> outcome)

\* propulsion_config["propellant_mass"] and ["burn_duration"] of main.py.
PropellantMass == 100 * MassUnit

BurnTime == 60

\* The thrust analyze_flow_properties computes, N; it depends on the
\* engine configuration at the time of the call.
FlowThrusts == {5000, 7000}

\* A thrust_function that falls back to no thrust when none is stored.
ThrustFunction_DefaultZero(metrics, t) ==
    IF t <= BurnTime
    THEN IF Len(metrics) = 0 THEN <<0>> ELSE <<metrics[1]>>
    ELSE <<0>>

\* thrust_function(t) reads the stored thrust while the engine burns; the
\* lookup raises when no thrust has been stored.
ThrustFunction(metrics, t) ==
    IF t <= BurnTime
    THEN IF Len(metrics) = 0 THEN Raises ELSE <<metrics[1]>>
    ELSE <<0>>

\* mass_function(t), with wet_mass = self.total_mass and
\* dry_mass = self.dry_mass read at the start of analyze_trajectory.
MassFunction(wet_mass, dry_mass, t) ==
    IF t <= BurnTime
    THEN wet_mass - MulDivR(PropellantMass, t, BurnTime)
    ELSE dry_mass

\* The times the trajectory's arrays are looked at: launch, mid-burn,
\* burnout and the first second of coasting.
SampleTimes == <<0, BurnTime \div 2, BurnTime, BurnTime + 1>>

\* The trajectory dictionary: its thrust and mass arrays and its apogee.
Trajectory(metrics, wet_mass, dry_mass, apogee) ==
    [thrust |-> [k \in DOMAIN SampleTimes |->
                    ThrustFunction(metrics, SampleTimes[k])[1]],
     mass |-> [k \in DOMAIN SampleTimes |->
                  MassFunction(wet_mass, dry_mass, SampleTimes[k])],
     apogee |-> apogee]

\* analyze_trajectory on the analyzer as it is: the integration calls
\* thrust_function at t = 0, so it raises when no thrust is stored.
EvaluateTrajectory(metrics, known, dry) ==
    IF ThrustFunction(metrics, 0) = Raises
    THEN {Raises}
    ELSE AnalyzeTrajectory(known, dry)

\* The arguments calculate_maximum_payload is called with.
TargetArguments == {None, Some(10000)}

RangeArguments == {None, Some(3000)}

MaxEvaluations == 12

\* The analyzer after __init__.
AnalyzerInit ==
    /\ analyzer_dry_mass = CalculateDryMass
    /\ original_dry_mass = 0
    /\ current_payload = 0
    /\ step = 0
    /\ current_altitude = 0
    /\ search_target = 0
    /\ altitude_range = 0
    /\ maximize_payload = FALSE
    /\ apc = "constructed"
    /\ apogee_of = <<>>
    /\ probes = <<>>
    /\ total_mass = CalculateDryMass + PropellantMass
    /\ performance_metrics = <<>>
    /\ trajectory_data = <<>>

\* The target and the range after their defaults are applied.
TargetOrFloor(target_arg) ==
    IF target_arg = None THEN MinAcceptableAltitude ELSE target_arg[1]

RangeOrDefault(range_arg, target) ==
    IF range_arg = None THEN DefaultAltitudeRange(target) ELSE range_arg[1]

\* analyze_flow_properties: the thrust is stored in performance_metrics.
\* The apogee of a dry mass is a function of the stored thrust as well, so
\* what was evaluated under another thrust is forgotten.
AnalyzeFlowProperties ==
    /\ apc = "constructed"
    /\ \E thrust \in FlowThrusts :
          /\ performance_metrics' = <<thrust>>
          /\ apogee_of' = IF performance_metrics = <<thrust>>
                          THEN apogee_of ELSE <<>>
    /\ UNCHANGED <<analyzer_dry_mass, original_dry_mass, current_payload,
                   step, current_altitude, search_target, altitude_range,
                   maximize_payload, apc, probes, total_mass,
                   trajectory_data>>
    /\ UNCHANGED optVars
    /\ UNCHANGED stgVars
    /\ UNCHANGED duoVars

\* analyze_trajectory called by the user of the analyzer: the trajectory
\* is stored in trajectory_data at the end, unless the call raises.
AnalyzeTrajectoryCall ==
    /\ apc = "constructed"
    /\ \E outcome \in EvaluateTrajectory(performance_metrics, apogee_of,
                                         analyzer_dry_mass) :
          /\ apogee_of' = Evaluated(apogee_of, analyzer_dry_mass, outcome)
          /\ IF outcome = Raises
             THEN /\ apc' = "trajectory_raised"
                  /\ UNCHANGED trajectory_data
             ELSE /\ trajectory_data' =
                         <<Trajectory(performance_metrics, total_mass,
                                      analyzer_dry_mass, outcome[1])>>
                  /\ UNCHANGED apc
    /\ UNCHANGED <<analyzer_dry_mass, original_dry_mass, current_payload,
                   step, current_altitude, search_target, altitude_range,
                   maximize_payload, probes, total_mass,
                   performance_metrics>>
    /\ UNCHANGED optVars
    /\ UNCHANGED stgVars
    /\ UNCHANGED duoVars

\* calculate_maximum_payload up to the loop: the baseline evaluation
\* and the defaults of the arguments.
CalculateMaximumPayload ==
    /\ apc = "constructed"
    /\ \E target_arg \in TargetArguments, range_arg \in RangeArguments :
       \E outcome \in EvaluateTrajectory(performance_metrics, apogee_of,
                                         analyzer_dry_mass) :
          /\ original_dry_mass' = analyzer_dry_mass
          /\ current_payload' = BaselinePayload
          /\ step' = InitialStep
          /\ apogee_of' = Evaluated(apogee_of, analyzer_dry_mass, outcome)
          /\ IF outcome = Raises
             THEN /\ apc' = "raised"
                  /\ UNCHANGED <<current_altitude, search_target,
                                 altitude_range, maximize_payload,
                                 trajectory_data>>
             ELSE /\ apc' = "searching"
                  /\ trajectory_data' =
                         <<Trajectory(performance_metrics, total_mass,
                                      analyzer_dry_mass, outcome[1])>>
                  /\ current_altitude' = outcome[1]
                  /\ search_target' = TargetOrFloor(target_arg)
                  /\ altitude_range' =
                         RangeOrDefault(range_arg, TargetOrFloor(target_arg))
                  /\ maximize_payload' = (target_arg = None)
    /\ UNCHANGED <<analyzer_dry_mass, probes, total_mass,
                   performance_metrics>>
    /\ UNCHANGED optVars
    /\ UNCHANGED stgVars
    /\ UNCHANGED duoVars

\* What one pass of the loop decides from the probe's altitude.
ProbeAccepted(test_altitude) ==
    IF maximize_payload
    THEN test_altitude >= search_target
    ELSE \/ Abs(test_altitude - search_target) <= altitude_range
         \/ test_altitude > search_target

ProbeBreaks(test_altitude) ==
    /\ ~maximize_payload
    /\ Abs(test_altitude - search_target) <= altitude_range

\* The dry mass a probe is evaluated with.
ProbeDryMass(original, payload, test_payload) ==
    original - payload + test_payload

\* One pass of the while loop: the probe, its evaluation and the decision.
ProbeStep ==
    /\ apc = "searching"
    /\ StepAtLeastMin(step)
    /\ Len(probes) < MaxEvaluations
    /\ \E test_payload \in {current_payload + step} :
       \E probe_dry \in {ProbeDryMass(original_dry_mass, current_payload,
                                      test_payload)} :
       \E outcome \in EvaluateTrajectory(performance_metrics, apogee_of,
                                         probe_dry) :
          /\ analyzer_dry_mass' = probe_dry
          /\ apogee_of' = Evaluated(apogee_of, probe_dry, outcome)
          /\ probes' = Append(probes, <<probe_dry, step>>)
          /\ trajectory_data' =
                 IF outcome = Raises
                 THEN trajectory_data
                 ELSE <<Trajectory(performance_metrics, total_mass,
                                   probe_dry, outcome[1])>>
          /\ IF outcome = Raises
             THEN /\ apc' = "raised"
                  /\ UNCHANGED <<current_payload, current_altitude, step>>
             ELSE IF ProbeAccepted(outcome[1])
                  THEN /\ current_payload' = test_payload
                       /\ current_altitude' = outcome[1]
                       /\ apc' = IF ProbeBreaks(outcome[1])
                                 THEN "band_hit" ELSE "searching"
                       /\ UNCHANGED step
                  ELSE /\ step' = step \div 2
                       /\ UNCHANGED <<current_payload, current_altitude, apc>>
    /\ UNCHANGED <<original_dry_mass, search_target, altitude_range,
                   maximize_payload, total_mass, performance_metrics>>
    /\ UNCHANGED optVars
    /\ UNCHANGED stgVars
    /\ UNCHANGED duoVars

\* After the loop: self.dry_mass is reset and payload_info is returned.
ReturnPayloadInfo ==
    /\ \/ apc = "searching" /\ ~StepAtLeastMin(step)
       \/ apc = "band_hit"
    /\ analyzer_dry_mass' = original_dry_mass
    /\ apc' = "returned"
    /\ UNCHANGED <<original_dry_mass, current_payload, step, current_altitude,
                   search_target, altitude_range, maximize_payload,
                   apogee_of, probes, total_mass, performance_metrics,
                   trajectory_data>>
    /\ UNCHANGED optVars
    /\ UNCHANGED stgVars
    /\ UNCHANGED duoVars

PayNext ==
    \/ AnalyzeFlowProperties
    \/ AnalyzeTrajectoryCall
    \/ CalculateMaximumPayload
    \/ ProbeStep
    \/ ReturnPayloadInfo

\* ---------------------------------------------------------------------
\* rocket_physics.py: a Stage on its own
\* ---------------------------------------------------------------------

\* No Stage of this kind has been asked for.
StageIdleInit ==
    /\ stage_obj = <<>>
    /\ stage_pc = "idle"
    /\ stage_delta_v = <<>>

\* The masses (kg) and propellant types Stage(...) is called with.
StageDryMasses == {-2000, -1000, -100, 0, 100, 1000, 2000}

StagePropellantMasses == {0, 100, 1000, 3000, 9000}

StagePropellantTypes == {"LOX_LH2", "LOX_RP1", "HTPB"}

StageRequestInit ==
    /\ \E d \in StageDryMasses, p \in StagePropellantMasses,
          t \in StagePropellantTypes :
           stage_obj = [dry_mass |-> d, propellant_mass |-> p, propellant |-> t]
    /\ stage_pc = "requested"
    /\ stage_delta_v = <<>>

\* n / d in 1e-4 for d # 0, with its sign.
SignedRatioE4(n, d) ==
    IF d < 0 THEN MulDivR(0 - n, 10000, 0 - d) ELSE MulDivR(n, 10000, d)

\* Stage.__init__ on the masses: mass_ratio and total_mass are derived;
\* the division raises ZeroDivisionError when dry_mass is 0.
StageInit ==
    /\ stage_pc = "requested"
    /\ IF stage_obj.dry_mass = 0
       THEN /\ stage_pc' = "raised"
            /\ UNCHANGED stage_obj
       ELSE /\ stage_pc' = "constructed"
            /\ stage_obj' =
                 [dry_mass        |-> stage_obj.dry_mass,
                  propellant_mass |-> stage_obj.propellant_mass,
                  propellant      |-> stage_obj.propellant,
                  mass_ratio      |->
                      SignedRatioE4(stage_obj.dry_mass
                                      + stage_obj.propellant_mass,
                                    stage_obj.dry_mass),
                  total_mass      |-> stage_obj.dry_mass
                                        + stage_obj.propellant_mass]
    /\ UNCHANGED stage_delta_v
    /\ UNCHANGED <<optVars, payVars, duoVars>>

\* math.log(mass_ratio) for mass_ratio > 0 in 1e-4, in 1e-6.
LogMassRatioE6(mass_ratio) ==
    IF mass_ratio >= 10000 THEN LnE6(mass_ratio, 10000)
    ELSE 0 - LnE6(10000, mass_ratio)

\* Stage.get_delta_v: isp * g0 * math.log(mass_ratio), cm/s; math.log
\* raises ValueError for an argument that is not positive.
GetDeltaV ==
    /\ stage_pc = "constructed"
    /\ IF stage_obj.mass_ratio <= 0
       THEN /\ stage_pc' = "raised"
            /\ UNCHANGED stage_delta_v
       ELSE /\ stage_pc' = "called"
            /\ stage_delta_v' =
                 <<MulDivR(LogMassRatioE6(stage_obj.mass_ratio),
                           PROPELLANT_COMBINATIONS[stage_obj.propellant].isp_vac
                             * GRAVITY_E2,
                           1000000)>>
    /\ UNCHANGED stage_obj
    /\ UNCHANGED <<optVars, payVars, duoVars>>

StageNext ==
    \/ StageInit
    \/ GetDeltaV

\* ---------------------------------------------------------------------
\* Specifications
\* ---------------------------------------------------------------------

\* The optimizer runs; the analyzer stays as constructed.
OptSpecInit == OptInit /\ AnalyzerInit /\ StageIdleInit /\ DuoIdleInit

OptSpec == OptSpecInit /\ [][OptNext]_vars

\* optimize_to_altitude with a second call of _optimize_mass allowed right
\* after the first.
MinNext ==
    \/ OptimizeToAltitude
    \/ ConvergingStep
    \/ EnterOptimizeMass
    \/ ReductionTrial
    \/ FinishOptimizeMass
    \/ OptimizeMassAgain
    \/ Finalize

MinSpec == OptSpecInit /\ [][MinNext]_vars

\* Optimizers for small and large payloads, as constructed; the small
\* payload gives stages with less than 100 kg of propellant.
DirectPayloads == {20, 2000, 200000}

DirectInit ==
    /\ target_altitude \in Targets
    /\ payload_mass \in DirectPayloads
    /\ num_stages \in 1..MaxStages
    /\ stages = InitializeRocket(target_altitude, payload_mass, num_stages)
    /\ stage_l_to_d = InitialStageLToD[num_stages]
    /\ max_altitude = EstimateAltitude(payload_mass, stages)
    /\ optimization_history = <<>>
    /\ pc = "constructed"
    /\ iterations = 0
    /\ adjustment_factor = 200
    /\ i = 0
    /\ mm_stage = 0
    /\ mm_j = 0
    /\ optimize_mass_calls = 0

\* optimize_to_altitude, or _optimize_mass called directly on the new
\* object.
DirectNext ==
    \/ OptimizeToAltitude
    \/ ConvergingStep
    \/ EnterOptimizeMass
    \/ CallOptimizeMass
    \/ ReductionTrial
    \/ FinishOptimizeMass
    \/ Finalize

DirectSpecInit == DirectInit /\ AnalyzerInit /\ StageIdleInit /\ DuoIdleInit

DirectSpec == DirectSpecInit /\ [][DirectNext]_vars

\* One optimizer as constructed, left alone while the payload search runs.
OptIdleInit ==
    /\ target_altitude = 50000
    /\ payload_mass = 2000
    /\ num_stages = 1
    /\ OptInit

PaySpecInit == OptIdleInit /\ AnalyzerInit /\ StageIdleInit /\ DuoIdleInit

PaySpec == PaySpecInit /\ [][PayNext]_vars

\* A design request before RocketOptimizer(...) is called with it; target
\* altitude and payload mass may be zero or negative.
RequestedTargets == Targets \cup {-1000, 0}

RequestedPayloads == Payloads \cup {-5, 0}

\* _initialize_rocket, lines 92 and 132 for the first stage: stage_mass in
\* 1e-2 kg, with its sign.
FirstStageMassE2(target, payload, n) ==
    payload * InitialMassRatio(target) * StageMassFractions[n][1]

\* The constructor raises while it builds the first Stage:
\* ZeroDivisionError at Stage.mass_ratio when dry_mass is 0, ValueError at
\* math.sqrt(self.throat_area / math.pi) when thrust_vac, which is
\* 1.6 * stage_mass * GRAVITY, is negative.
ConstructRaises(target, payload, n) ==
    \/ FirstStageMassE2(target, payload, n) = 0
    \/ FirstStageMassE2(target, payload, n) < 0

CtorInit ==
    /\ target_altitude \in RequestedTargets
    /\ payload_mass \in RequestedPayloads
    /\ num_stages \in 1..MaxStages
    /\ stages = <<>>
    /\ stage_l_to_d = <<>>
    /\ max_altitude = 0
    /\ optimization_history = <<>>
    /\ pc = "requested"
    /\ iterations = 0
    /\ adjustment_factor = 200
    /\ i = 0
    /\ mm_stage = 0
    /\ mm_j = 0
    /\ optimize_mass_calls = 0

\* RocketOptimizer.__init__(target_altitude, payload_mass, stages=n): the
\* fields are stored and _initialize_rocket builds the first rocket.
Construct ==
    /\ pc = "requested"
    /\ IF ConstructRaises(target_altitude, payload_mass, num_stages)
       THEN /\ pc' = "construction_raised"
            /\ UNCHANGED <<stages, stage_l_to_d, max_altitude>>
       ELSE \E new_stages \in {InitializeRocket(target_altitude, payload_mass,
                                                num_stages)} :
               /\ stages' = new_stages
               /\ stage_l_to_d' = InitialStageLToD[num_stages]
               /\ max_altitude' = EstimateAltitude(payload_mass, new_stages)
               /\ pc' = "constructed"
    /\ UNCHANGED <<target_altitude, payload_mass, num_stages,
                   optimization_history, iterations, adjustment_factor, i,
                   mm_stage, mm_j, optimize_mass_calls>>
    /\ UNCHANGED payVars
    /\ UNCHANGED stgVars
    /\ UNCHANGED duoVars

CtorNext == Construct

\* Design requests, each constructed once.
CtorSpecInit == CtorInit /\ AnalyzerInit /\ StageIdleInit /\ DuoIdleInit

CtorSpec == CtorSpecInit /\ [][CtorNext]_vars

\* Stage objects built with any masses, each asked for its delta-v.
StageSpecInit == OptIdleInit /\ AnalyzerInit /\ StageRequestInit /\ DuoIdleInit

StageSpec == StageSpecInit /\ [][StageNext]_vars

\* Two optimizers whose steps interleave in any order.
DuoSpecInit == OptIdleInit /\ AnalyzerInit /\ StageIdleInit /\ DuoInit

DuoSpec == DuoSpecInit /\ [][DuoNext]_vars

\* ---------------------------------------------------------------------
\* Properties of the optimizer
\* ---------------------------------------------------------------------

\* C1: optimize_to_altitude(iterations=N) never raises: for every target,
\* payload and stage count the run goes on to return the rocket, whether
\* the tolerance was met or the budget ran out.
OptimizeToAltitudeNeverRaises == pc # "raised"

\* The estimate recorded at the initial state or after a Converging step
\* was within 5% of the target.
SomeRecordWithinTolerance ==
    \E k \in 1..Len(optimization_history) :
        WithinTolerance(target_altitude, optimization_history[k].altitude)

\* C2: when the estimate is within 5% of the target at the initial state or
\* after any Converging step of the budget, the last one included,
\* _optimize_mass has run by the time optimize_to_altitude returns.
WithinToleranceRunsMassMinimizing ==
    (pc = "returned" /\ SomeRecordWithinTolerance) => optimize_mass_calls >= 1

\* C3: when optimize_to_altitude returns, self.max_altitude is the altitude
\* estimate of the rocket that is returned.
ReportedAltitudeIsEstimate ==
    pc = "returned" =>
        /\ ~EstimateRaises(payload_mass, stages)
        /\ max_altitude = EstimateAltitude(payload_mass, stages)

\* The 100 kg floor of a mass update.
MassFloor == FromInt(100)

MassesPositive ==
    \A n \in 1..Len(stages) :
        FPositive(stages[n].dry_mass) /\ FPositive(stages[n].propellant_mass)

\* A step that changes a stage's dry or propellant mass leaves it at 100 kg
\* or more.
MassWritesAtLeastFloor ==
    \A n \in 1..Len(stages) :
        /\ stages'[n].dry_mass # stages[n].dry_mass
               => ~FLess(stages'[n].dry_mass, MassFloor)
        /\ stages'[n].propellant_mass # stages[n].propellant_mass
               => ~FLess(stages'[n].propellant_mass, MassFloor)

\* C4: in every state of an optimization run every stage's dry mass and
\* propellant mass is strictly positive, and every mass an optimizer update
\* writes is at least 100 kg.
MassesPositiveAndWritesClamped ==
    []MassesPositive /\ [][MassWritesAtLeastFloor]_vars

\* A run in which an update was held at the floor: a stage's dry mass and
\* a stage's propellant mass are exactly 100 kg after Converging steps.
MassHeldAtFloor ==
    /\ i > 1
    /\ \E n \in 1..Len(stages) : stages[n].dry_mass = MassFloor
    /\ \E n \in 1..Len(stages) : stages[n].propellant_mass = MassFloor

\* C5: in every state of an optimization run every stage has a diameter of
\* at least 0.5 m and a length of at least 1.0 m.
GeometryAtLeastFloor ==
    \A n \in 1..Len(stages) :
        stages[n].diameter >= 500 /\ stages[n].length >= 1000

\* A run whose geometry adjustments were held at both floors.
GeometryHeldAtFloor ==
    /\ i > 3
    /\ \E n \in 1..Len(stages) :
           stages[n].diameter = 500 /\ stages[n].length = 1000

\* The delta-v of a burn that takes off the stage's propellant only, the
\* dry mass leaving at separation: the stage starts at the mass left by
\* the stages before it and ends at that mass less its propellant.
PropellantOnlyTerm(payload, stgs, n) ==
    MulDivR(FLnE6(MassAfterStages(payload, stgs, n - 1),
                  FSub(MassAfterStages(payload, stgs, n - 1),
                       stgs[n].propellant_mass)),
            GRAVITY_E2 * PROPELLANT_COMBINATIONS[stgs[n].propellant].isp_vac,
            1000000)

RECURSIVE SumPropellantOnly(_, _, _)
SumPropellantOnly(payload, stgs, n) ==
    IF n = 0 THEN 0
    ELSE SumPropellantOnly(payload, stgs, n - 1)
             + PropellantOnlyTerm(payload, stgs, n)

\* C9: get_total_delta_v adds, for each stage in burn order,
\* g0 * isp_vac * ln(m_before / m_after) with m_after = m_before less the
\* stage's propellant; the dry mass comes off only at separation.
DeltaVBurnsPropellantOnly ==
    pc = "constructed" =>
        GetTotalDeltaV(payload_mass, stages)
            = SumPropellantOnly(payload_mass, stages, Len(stages))

\* The sum of the numerators of get_mass_fractions: the payload and every
\* stage's dry plus propellant mass.
RECURSIVE SumStageFractions(_, _)
SumStageFractions(fractions, n) ==
    IF n = 0 THEN fractions.payload
    ELSE FAdd(SumStageFractions(fractions, n - 1),
              FAdd(fractions.dry[n], fractions.propellant[n]))

FractionsTotal(fractions) == SumStageFractions(fractions, Len(fractions.dry))

FractionsSumToOne(fractions) == FractionsTotal(fractions) = fractions.total

\* C10: on every rocket an optimizer run reaches the mass fractions sum to
\* one: payload plus every stage's dry and propellant mass is
\* get_total_mass().
MassFractionsSumToOne ==
    FractionsSumToOne(GetMassFractions(payload_mass, stages))

\* A returned rocket whose masses went through Converging steps and
\* _optimize_mass.
FractionsAfterMassMinimizing ==
    /\ pc = "returned"
    /\ optimize_mass_calls >= 1
    /\ stages # InitializeRocket(target_altitude, payload_mass, num_stages)
    /\ MassFractionsSumToOne

\* ---------------------------------------------------------------------
\* Properties of the payload search
\* ---------------------------------------------------------------------

\* C6: whenever calculate_maximum_payload exits, by returning on any search
\* path or because a trajectory evaluation raised, self.dry_mass is what it
\* was at entry.
DryMassRestoredOnExit ==
    apc \in {"returned", "raised"} => analyzer_dry_mass = original_dry_mass

\* C7: the payload search always stops after finitely many trajectory
\* evaluations.  The apogee is a function of the dry mass and the loop's
\* decision a function of the apogee and the step, so a pass of the loop
\* that evaluates a dry mass at a step it was evaluated at before is
\* repeated without end: the search stops only if no pass does.
PayloadSearchNeverRepeatsProbe ==
    \A a, b \in 1..Len(probes) : a # b => probes[a] # probes[b]

\* C8: the altitude calculate_maximum_payload returns meets the constraint
\* of the search: at least the 1000 m floor without a target, within the
\* band around the target with one, also when the baseline missed it.
ReturnedAltitudeMeetsConstraint ==
    apc = "returned" =>
        IF maximize_payload
        THEN current_altitude >= search_target
        ELSE Abs(current_altitude - search_target) <= altitude_range

\* ---------------------------------------------------------------------
\* Further properties of the optimizer
\* ---------------------------------------------------------------------

\* The derived values a stage stores agree with its masses.
StageDerivedConsistent(st) ==
    /\ st.total_mass = FAdd(st.dry_mass, st.propellant_mass)
    /\ st.mass_ratio = MassRatioE4(st.total_mass, st.dry_mass)
    /\ st.mass_ratio >= 10000

\* C11: wherever the optimizer evaluates the altitude estimate or appends
\* a history record, every stage has total_mass = dry_mass +
\* propellant_mass and mass_ratio = total_mass / dry_mass >= 1.
DerivedValuesConsistent ==
    \A n \in 1..Len(stages) : StageDerivedConsistent(stages[n])

\* A record was appended after a Converging step that changed the masses
\* and boosted the thrust.
DerivedValuesAfterConverging ==
    /\ Len(optimization_history) >= 2
    /\ \E n \in 1..Len(stages) :
           stages[n].propellant_mass
               # optimization_history[1].stages[n].propellant_mass
    /\ DerivedValuesConsistent

\* One call of _estimate_altitude: it raises, or it returns an altitude,
\* having printed the liftoff warning or not.
EstimateAltitudeCall(payload, stgs) ==
    IF EstimateRaises(payload, stgs)
    THEN [raised |-> TRUE, altitude |-> 0, warning |-> FALSE]
    ELSE [raised   |-> FALSE,
          altitude |-> EstimateAltitude(payload, stgs),
          warning  |-> TwrTooLow(payload, stgs)]

\* C12: for every rocket whose liftoff thrust-to-weight ratio is below 1.2
\* the altitude estimate returns 0 and prints the warning, whatever the
\* delta-v.
LowTwrEstimateIsZeroWithWarning ==
    TwrE6(payload_mass, stages) < 1200000 =>
        EstimateAltitudeCall(payload_mass, stages)
            = [raised |-> FALSE, altitude |-> 0, warning |-> TRUE]

\* An estimate was taken in a Converging step on a rocket with a
\* thrust-to-weight ratio below 1.2 and a delta-v above 9000 m/s.
LowTwrWithLargeDeltaV ==
    /\ Len(optimization_history) >= 2
    /\ TwrE6(payload_mass, stages) < 1200000
    /\ ~GetTotalDeltaVRaises(payload_mass, stages)
    /\ GetTotalDeltaV(payload_mass, stages) > 900000
    /\ max_altitude = 0

\* C13: a design request with a non-positive target altitude or a
\* non-positive payload mass is rejected with an error by the constructor:
\* no rocket is built for it.
NonPositiveRequestRejected ==
    (pc # "requested" /\ (target_altitude <= 0 \/ payload_mass <= 0)) =>
        pc = "construction_raised" /\ stages = <<>>

\* b differs from a by less than one 2% step of a: 50 |b - a| < a.
ChangeBelowStep(a, b) ==
    FLess(FMulDivR(IF FLess(b, a) THEN FSub(a, b) ELSE FSub(b, a), 50, 1), a)

PracticalMinimum(d) == IF 4 * d > 2000 THEN FromInt(4 * d) ELSE FromInt(2000)

\* t is the largest of a, b and c.
IsMaxOfThree(t, a, b, c) ==
    /\ t \in {a, b, c}
    /\ ~FLess(t, a)
    /\ ~FLess(t, b)
    /\ ~FLess(t, c)

WallThicknessIsMax(payload, stgs, stage_index) ==
    IsMaxOfThree(CalculateWallThickness(payload, stgs, stage_index),
                 FromInt(MinThicknessPressure(stgs[stage_index + 1],
                                              stage_index)),
                 MinThicknessAccel(payload, stgs, stage_index),
                 PracticalMinimum(stgs[stage_index + 1].diameter))

\* C15: for every stage and every load state the wall thickness of the
\* structural sizer is the maximum of the hoop-derived thickness, the
\* axial-derived thickness and the practical minimum max(2 mm, 0.4% of
\* the diameter), hence never below the practical minimum.
WallThicknessIsMaxOfThree ==
    \A k \in 1..Len(stages) :
        /\ WallThicknessIsMax(payload_mass, stages, k - 1)
        /\ ~FLess(CalculateWallThickness(payload_mass, stages, k - 1),
                  PracticalMinimum(stages[k].diameter))

\* The practical minimum decides the thickness of stage k.
PracticalMinimumBinds(payload, stgs, k) ==
    /\ FLess(FromInt(MinThicknessPressure(stgs[k], k - 1)),
             PracticalMinimum(stgs[k].diameter))
    /\ FLess(MinThicknessAccel(payload, stgs, k - 1),
             PracticalMinimum(stgs[k].diameter))

\* The axial load decides the thickness of stage k.
AxialLoadBinds(payload, stgs, k) ==
    /\ FLess(FromInt(MinThicknessPressure(stgs[k], k - 1)),
             MinThicknessAccel(payload, stgs, k - 1))
    /\ FLess(PracticalMinimum(stgs[k].diameter),
             MinThicknessAccel(payload, stgs, k - 1))

\* After Converging steps the practical minimum decides one stage's wall
\* and the axial load another's.
WallDecidedByMinimumAndByLoad ==
    /\ i > 1
    /\ \E k \in 1..Len(stages) :
           PracticalMinimumBinds(payload_mass, stages, k)
    /\ \E k \in 1..Len(stages) : AxialLoadBinds(payload_mass, stages, k)

RecordsRocketAfterStep(rec, n) ==
    /\ rec.iteration = n
    /\ rec.altitude = max_altitude'
    /\ rec.total_mass = GetTotalMass(payload_mass, stages')
    /\ rec.delta_v = GetTotalDeltaV(payload_mass, stages')
    /\ Len(rec.stages) = Len(stages')
    /\ \A k \in 1..Len(stages') :
          /\ rec.stages[k].dry_mass = stages'[k].dry_mass
          /\ rec.stages[k].propellant_mass = stages'[k].propellant_mass

\* The step appends exactly one record, numbered n, and keeps the others.
AppendsOneRecord(n) ==
    /\ Len(optimization_history') = Len(optimization_history) + 1
    /\ SubSeq(optimization_history', 1, Len(optimization_history))
          = optimization_history
    /\ RecordsRocketAfterStep(
           optimization_history'[Len(optimization_history')], n)

\* C18: the history is append-only and per-iteration: the call appends a
\* record for iteration 0, every Converging step that runs to its end
\* appends exactly one record numbered one more than the last, every other
\* step leaves the history alone, and a record holds the altitude, total
\* mass, delta-v and per-stage masses the rocket has at the end of the step.
HistoryAppendOnlyPerIteration ==
    [][IF pc = "constructed"
       THEN AppendsOneRecord(0)
       ELSE IF pc = "converging" /\ pc' \in {"converging", "finalize"}
       THEN /\ AppendsOneRecord(Len(optimization_history))
            /\ optimization_history'[Len(optimization_history')].iteration
                  = optimization_history[Len(optimization_history)].iteration + 1
       ELSE optimization_history' = optimization_history]_vars

\* optimize_to_altitude has returned after at least three Converging
\* steps, whose records differ in altitude and in mass.
HistoryOfSeveralSteps ==
    /\ pc = "returned"
    /\ Len(optimization_history) >= 4
    /\ optimization_history[2].altitude # optimization_history[4].altitude
    /\ optimization_history[2].total_mass # optimization_history[4].total_mass

\* The thrusts of the stage at index j in the state reached are 1.1 times
\* the thrusts alone gives it (the sea-level thrust for the first stage).
ThrustBoostedOver(alone, j) ==
    /\ stages'[j + 1].thrust_vac = FMulDivR(alone.thrust_vac, 11, 10)
    /\ j = 0 => stages'[1].thrust_sl = FMulDivR(alone.thrust_sl, 11, 10)

\* C19: in a Converging step with error_ratio > 0.2 the thrust in effect
\* when the altitude is estimated again is, for every stage, 1.1 times the
\* thrust the propellant update alone gives (vacuum thrust, and sea-level
\* thrust of the first stage).
LargeUndershootBoostsThrust ==
    [][(/\ pc = "converging"
        /\ ~WithinTolerance(target_altitude, max_altitude)
        /\ LargeUndershoot(target_altitude, max_altitude))
       => \A k \in 1..Len(stages) :
             ThrustBoostedOver(
                 PropellantUpdate(stages[k], k - 1, target_altitude,
                                  max_altitude, adjustment_factor),
                 k - 1)]_vars

\* The actual length/diameter ratio of a stage, in 1e-3.
ActualLToD(st) == MulDivR(st.length, 1000, st.diameter)

\* The ratio the adjustment is to give: the previous actual ratio times 0.95
\* (more altitude needed) or 1.05, clamped to [3, 12]; in 1e-3.
ScaledLToD(ratio, need_more) ==
    IF need_more
    THEN Max(3000, Min(12000, MulDivR(ratio, 95, 100)))
    ELSE Max(3000, Min(12000, MulDivR(ratio, 105, 100)))

\* a and b agree to within 0.5% (lengths are kept in whole millimetres).
RatiosAgree(a, b) == Abs(a - b) * 200 <= b

\* Neither the 0.5 m diameter floor nor the 1 m length floor was applied.
AboveGeometryFloors(st) == st.diameter > 500 /\ st.length > 1000

\* C20: the geometry is adjusted exactly in iterations 3, 6, 9, ...; the
\* adjustment changes each stage's actual length/diameter ratio to its
\* previous actual ratio times 0.95 (more altitude needed) or times 1.05,
\* clamped to [3, 12], the first adjustment after the initial sizing
\* included, as long as the diameter and length floors do not apply.
GeometryScalesActualRatio ==
    [][(pc = "converging" /\ ~WithinTolerance(target_altitude, max_altitude))
       => \A k \in 1..Len(stages) :
             IF i % 3 = 0
             THEN AboveGeometryFloors(stages'[k]) =>
                     RatiosAgree(ActualLToD(stages'[k]),
                                 ScaledLToD(ActualLToD(stages[k]),
                                            target_altitude > max_altitude))
             ELSE /\ stages'[k].diameter = stages[k].diameter
                  /\ stages'[k].length = stages[k].length]_vars

\* ---------------------------------------------------------------------
\* Properties of a Stage
\* ---------------------------------------------------------------------

\* C14: Stage.get_delta_v returns 0, and neither raises nor returns NaN,
\* whenever the stage's mass_ratio is at most 0.
DeltaVZeroForNonPositiveRatio ==
    (stage_pc \in {"called", "raised"}
       /\ "mass_ratio" \in DOMAIN stage_obj
       /\ stage_obj.mass_ratio <= 0) =>
        stage_pc = "called" /\ stage_delta_v = <<0>>

\* ---------------------------------------------------------------------
\* Further properties of the geometry adjustment and of mass minimisation
\* ---------------------------------------------------------------------

\* diameter^2 * length of a stage in 1e6 mm^3: its cylinder volume up to
\* the factor pi/4.
CylinderVolume(st) ==
    MulDivR(MulDivR(st.diameter, st.diameter, 1000), st.length, 1000)

\* C21: a geometry adjustment keeps each stage's cylinder volume: with no
\* floor applying, new_diameter^2 * new_length equals the old
\* diameter^2 * length (to within 1%, lengths being whole millimetres).
GeometryKeepsVolume ==
    [][(/\ pc = "converging"
        /\ ~WithinTolerance(target_altitude, max_altitude)
        /\ i % 3 = 0)
       => \A k \in 1..Len(stages) :
             AboveGeometryFloors(stages'[k]) =>
                 Abs(CylinderVolume(stages'[k]) - CylinderVolume(stages[k]))
                     * 100 <= CylinderVolume(stages[k])]_vars

\* The reduction tried in this state is rejected: the estimate falls below
\* 95% of the target or the mass ratio is above 10.
TrialIsRejected(reduced) ==
    /\ ~EstimateRaises(payload_mass,
                       [stages EXCEPT ![mm_stage + 1] = reduced])
    /\ TrialRejected(target_altitude,
                     EstimateAltitude(payload_mass,
                                      [stages EXCEPT ![mm_stage + 1] = reduced]),
                     reduced)

RejectedTrial ==
    /\ pc = "optimize_mass"
    /\ mm_stage < num_stages
    /\ TrialIsRejected(
           UpdateStageMass(stages[mm_stage + 1], mm_stage,
                           Some(ReducedPropellant(
                                    stages[mm_stage + 1].propellant_mass)),
                           None))

\* Stage b has the masses, mass ratio, flow rate and thrusts of stage a.
SameMassAndThrust(a, b) ==
    /\ b.propellant_mass = a.propellant_mass
    /\ b.total_mass = a.total_mass
    /\ b.mass_ratio = a.mass_ratio
    /\ b.propellant_flow_rate = a.propellant_flow_rate
    /\ b.thrust_vac = a.thrust_vac
    /\ b.thrust_sl = a.thrust_sl

MinimizedDesignKeepsAltitude ==
    (pc = "finalize" /\ optimize_mass_calls >= 1) =>
        /\ ~EstimateRaises(payload_mass, stages)
        /\ EstimateAltitude(payload_mass, stages) * 100 >= target_altitude * 95

\* ---------------------------------------------------------------------
\* Properties of the structural sizer's tank pressure and of nozzle sizing
\* ---------------------------------------------------------------------

\* The propellants of the catalogue that carry liquid oxygen.
OxygenBearing == {"LOX_LH2", "LOX_RP1"}

\* C24: the structural sizer uses a tank pressure of 3e5 Pa for every stage
\* whose propellant is LOX/LH2 or LOX/RP1 and 2e5 Pa for every other
\* propellant.
TankPressureByPropellant ==
    \A k \in 1..Len(stages) :
        TankPressure(stages[k]) =
            IF stages[k].propellant \in OxygenBearing THEN 300000 ELSE 200000

\* The expansion ratio of the stage at index j by its role.
RatioByStageIndex(j) == IF j = 0 THEN 10 ELSE IF j = 1 THEN 40 ELSE 80

\* C27: nozzle sizing picks the expansion ratio by stage role, 10 for a
\* first/booster stage, 40 for a second stage, 80 for a third/upper stage,
\* 25 otherwise; the stages of the optimizer get 10 (index 0), 40 (index 1)
\* and 80 (index 2).
ExpansionRatioByRole ==
    /\ CalculateOptimalExpansionRatio(Chars_first) = 10
    /\ CalculateOptimalExpansionRatio(Chars_booster) = 10
    /\ CalculateOptimalExpansionRatio(Chars_second) = 40
    /\ CalculateOptimalExpansionRatio(Chars_third) = 80
    /\ CalculateOptimalExpansionRatio(Chars_upper) = 80
    /\ CalculateOptimalExpansionRatio(<<"s", "t", "a", "g", "e">>) = 25
    /\ \A k \in 1..Len(stages) :
          stages[k].expansion_ratio = RatioByStageIndex(k - 1)

\* ---------------------------------------------------------------------
\* Properties of the analyzer's trajectory evaluations
\* ---------------------------------------------------------------------

\* A pass of the search loop has evaluated a probe.
ProbeEvaluated == apc = "searching" /\ Len(probes') = Len(probes) + 1

\* C26: in every probe of the payload search the dry mass the trajectory
\* is evaluated with is the entry dry mass minus the 50 kg baseline
\* payload plus the test payload, whatever payload was accepted before.
ProbeCarriesTestPayload ==
    [][ProbeEvaluated =>
          analyzer_dry_mass' =
              original_dry_mass - BaselinePayload + (current_payload + step)]_vars

\* A trajectory evaluation has stored a new trajectory; self.dry_mass is
\* not assigned between the evaluation and the end of the step, so the
\* dry mass after the step is the one the evaluation was made with.
TrajectoryStored ==
    trajectory_data' # trajectory_data /\ Len(trajectory_data') = 1

\* The mass array of a trajectory follows the line from dry + propellant
\* at launch to dry at burnout and stays there afterwards.
MassProfileOf(trajectory, dry_mass) ==
    /\ trajectory.mass[1] = dry_mass + PropellantMass
    /\ 2 * trajectory.mass[2] = trajectory.mass[1] + trajectory.mass[3]
    /\ trajectory.mass[3] = dry_mass
    /\ trajectory.mass[4] = trajectory.mass[3]

\* C25: in every trajectory evaluation the vehicle mass starts at the
\* current dry mass plus the propellant mass, falls linearly and equals
\* the current dry mass at burnout with no jump there, also in the
\* evaluations the payload search makes after it has changed dry_mass.
MassFallsToCurrentDryMass ==
    [][TrajectoryStored =>
          MassProfileOf(trajectory_data'[1], analyzer_dry_mass')]_vars

\* The trajectory of the nominal configuration: the one analyze_trajectory
\* stores for the dry mass calculate_maximum_payload was entered with.
NominalTrajectory ==
    Trajectory(performance_metrics, total_mass, original_dry_mass,
               apogee_of[original_dry_mass][1])

\* C30: calculate_maximum_payload leaves trajectory_data unchanged: after
\* it returns, trajectory_data is still the trajectory of the nominal
\* configuration, not that of a search probe with a modified dry mass.
TrajectoryDataStillNominal ==
    apc = "returned" => trajectory_data = <<NominalTrajectory>>

\* A call made while no thrust is stored has ended.
CallWithoutThrustEnded ==
    /\ Len(performance_metrics) = 0
    /\ apc = "constructed"
    /\ apc' # apc \/ trajectory_data' # trajectory_data

\* C29: analyze_trajectory, and therefore calculate_maximum_payload, only
\* works after analyze_flow_properties has run on the same analyzer: the
\* thrust of every trajectory is the one the last analyze_flow_properties
\* call stored, and on a freshly constructed analyzer the call raises and
\* stores no trajectory, because no thrust has been stored.
TrajectoryNeedsStoredThrust ==
    [][/\ TrajectoryStored =>
             /\ Len(performance_metrics) = 1
             /\ trajectory_data'[1].thrust[1] = performance_metrics[1]
       /\ CallWithoutThrustEnded =>
             /\ apc' \in {"trajectory_raised", "raised"}
             /\ trajectory_data' = trajectory_data]_vars

\* analyze_trajectory was called on a freshly constructed analyzer and
\* raised: no thrust and no trajectory are stored.
FreshAnalyzerRaised ==
    /\ apc = "trajectory_raised"
    /\ Len(performance_metrics) = 0
    /\ Len(trajectory_data) = 0

\* ---------------------------------------------------------------------
\* rocket_physics.py: generate_rocket_csv_specs
\* ---------------------------------------------------------------------

\* One row of the segment list: what the segment is, its type column, the
\* stage_index of the loop pass that wrote it (0 outside the loop) and the
\* name of the stage it is named after (empty when it is named after none).
\* The dimension, thickness, material and comment columns are left out.
Row(segment, type, stage_index, stage_name) ==
    [segment |-> segment, type |-> type, stage_index |-> stage_index,
     stage_name |-> stage_name]

\* The interstage adapter, written in every pass but the first.
InterstageRows(stgs, pass, stage_index) ==
    IF pass > 0
    THEN <<Row("Interstage",
               IF stgs[stage_index + 1].diameter # stgs[stage_index].diameter
               THEN "cone" ELSE "tube",
               stage_index, <<>>)>>
    ELSE <<>>

\* The fins, written for the first stage only.
FinRows(stage_index) ==
    IF stage_index = 1
    THEN <<Row("First Stage Fins", "fins", stage_index, <<>>)>>
    ELSE <<>>

\* The fins written in the pass of the top stage instead.
StageRows_FinsOnTopStage(stgs, pass) ==
    InterstageRows(stgs, pass, Len(stgs) - pass)
    \o <<Row("Body", "tube", Len(stgs) - pass, stgs[Len(stgs) - pass].name),
         Row("Engine Section", "tube", Len(stgs) - pass, stgs[Len(stgs) - pass].name),
         Row("Nozzle", "cone", Len(stgs) - pass, stgs[Len(stgs) - pass].name)>>
    \o (IF pass = 0
        THEN <<Row("First Stage Fins", "fins", Len(stgs) - pass, <<>>)>>
        ELSE <<>>)

\* The rows written in pass number pass (from 0) of the loop over
\* reversed(rocket.stages); stage_index counts the stages from 1.
StageRows(stgs, pass) ==
    InterstageRows(stgs, pass, Len(stgs) - pass)
    \o <<Row("Body", "tube", Len(stgs) - pass, stgs[Len(stgs) - pass].name),
         Row("Engine Section", "tube", Len(stgs) - pass, stgs[Len(stgs) - pass].name),
         Row("Nozzle", "cone", Len(stgs) - pass, stgs[Len(stgs) - pass].name)>>
    \o FinRows(Len(stgs) - pass)

\* The rows after the fairing and the first passes of the loop.
RECURSIVE RowsAfter(_, _)
RowsAfter(stgs, passes) ==
    IF passes = 0
    THEN <<Row("Payload Fairing", "cone", 0, <<>>)>>
    ELSE RowsAfter(stgs, passes - 1) \o StageRows(stgs, passes - 1)

GenerateRocketCsvSpecs(stgs) == RowsAfter(stgs, Len(stgs))

\* The three rows of a stage start right after row base.
StageSegmentsAt(rows, base, stage) ==
    /\ rows[base + 1].segment = "Body"
    /\ rows[base + 2].segment = "Engine Section"
    /\ rows[base + 3].segment = "Nozzle"
    /\ \A k \in 1..3 : rows[base + k].stage_name = stage.name

\* The layout of the segment list of n stages: the fairing, then the
\* stages from the top one down, every stage but the top one after an
\* interstage row, and one fin row, the last, written for stage 1.
SegmentLayout(rows, stgs) ==
    /\ Len(rows) = 4 * Len(stgs) + 1
    /\ rows[1].segment = "Payload Fairing"
    /\ \A j \in 1..Len(stgs) :
          /\ StageSegmentsAt(rows, 4 * (j - 1) + 1, stgs[Len(stgs) - j + 1])
          /\ j > 1 => rows[4 * (j - 1) + 1].segment = "Interstage"
    /\ Cardinality({k \in DOMAIN rows :
                       rows[k].segment = "Interstage"}) = Len(stgs) - 1
    /\ Cardinality({k \in DOMAIN rows :
                       rows[k].segment = "First Stage Fins"}) = 1
    /\ rows[Len(rows)].segment = "First Stage Fins"
    /\ rows[Len(rows)].stage_index = 1

\* C28: for a rocket of n >= 1 stages the segment list has exactly
\* 4n + 1 rows: the payload fairing first, then the stages from top to
\* bottom, each as Body, Engine Section, Nozzle, with one interstage row
\* before every stage but the top one, and one fin row, last, of stage 1.
CsvSpecsLayout ==
    Len(stages) >= 1 => SegmentLayout(GenerateRocketCsvSpecs(stages), stages)

\* The segment list of a three-stage rocket whose geometry was adjusted.
ThreeStageSegmentList ==
    /\ Len(stages) = 3
    /\ i > 3
    /\ Len(GenerateRocketCsvSpecs(stages)) = 13

====
